---- MODULE Spec2Model ----
(***************************************************************************)
(* Model of the Result Store of richinex/ariadne (storage/resultstore.go), *)
(* of the suffix array it searches with (internal/dsa/suffix_array.go) and *)
(* of the results table it persists to (storage/sqlite.go), and of the    *)
(* StoredFileContext and retrieval tools (tools/resultstore_tools.go).     *)
(*                                                                         *)
(* Strings are sequences of one-character strings, so that slicing,        *)
(* comparing and concatenating them is done as the Go code does it.  All   *)
(* offsets are 0-based as in the source; Slice converts to TLA+ sequences. *)
(***************************************************************************)
EXTENDS Integers, Sequences, FiniteSets, TLC

\* ------------------------------------------------------------------ bounds

\* Operations run in one behaviour of the sequential specification.
MaxOps == 4
\* Operations started in one behaviour of the concurrent specification.
MaxConcOps == 3
\* The last second of the clock that stamps the rows of the results table.
MaxClock == 1
\* The longest text a suffix array is built of and the longest pattern it
\* is searched for.
MaxText == 5
MaxPattern == 3
\* The longest content a summary is made of.
MaxSummaryContent == 4
\* Add calls with a key that was added before, in one behaviour.
MaxReAdds == 2
\* Add calls in one behaviour of the specification of the tools.
MaxToolAdds == 1

\* --------------------------------------------------------------- alphabet

NL == "\n"
\* The sentinel byte "\x00" that the rebuild writes after every content.
NUL == "^@"

\* Byte value of a character (Go compares strings bytewise).
Ord(c) ==
    CASE c = NUL -> 0
      [] c = NL  -> 10
      [] c = ":" -> 58
      [] c = "A" -> 65
      [] c = "B" -> 66
      [] c = "a" -> 97
      [] c = "b" -> 98
      [] c = "x" -> 120
      [] c = "y" -> 121

\* ------------------------------------------------------- strings package

\* s[i:j] of Go.
Slice(s, i, j) == SubSeq(s, i + 1, j)

\* strings.Count(s, c) for a one-byte c.
Count(s, c) == Cardinality({i \in 1..Len(s) : s[i] = c})

\* strings.Index(s, c) for a one-byte c: 0-based, -1 when absent.
Index(s, c) ==
    IF \E i \in 1..Len(s) : s[i] = c
    THEN (CHOOSE i \in 1..Len(s) : s[i] = c /\ \A j \in 1..(i - 1) : s[j] # c) - 1
    ELSE -1

\* strings.LastIndex(s, c) for a one-byte c: 0-based, -1 when absent.
LastIndex(s, c) ==
    IF \E i \in 1..Len(s) : s[i] = c
    THEN (CHOOSE i \in 1..Len(s) : s[i] = c /\ \A j \in (i + 1)..Len(s) : s[j] # c) - 1
    ELSE -1

\* Go's s < t on strings: bytewise lexicographic order.
RECURSIVE StrLess(_, _)
StrLess(s, t) ==
    IF Len(t) = 0 THEN FALSE
    ELSE IF Len(s) = 0 THEN TRUE
    ELSE IF Ord(s[1]) # Ord(t[1]) THEN Ord(s[1]) < Ord(t[1])
    ELSE StrLess(Tail(s), Tail(t))

\* strings.Split(s, "\n"): the lines of s, at least one.
RECURSIVE Split(_)
Split(s) ==
    LET i == Index(s, NL)
    IN  IF i = -1 THEN <<s>>
        ELSE <<Slice(s, 0, i)>> \o Split(Slice(s, i + 1, Len(s)))

\* strings.Join(lines, "\n").
RECURSIVE Join(_)
Join(lines) ==
    IF Len(lines) = 0 THEN <<>>
    ELSE IF Len(lines) = 1 THEN lines[1]
    ELSE lines[1] \o <<NL>> \o Join(Tail(lines))

\* ------------------------------------------------------------ suffix array

\* The comparator handed to sort.Slice: order by (rank[a], rank[a+k]),
\* a second rank of -1 past the end of the text.
PairLess(a, b, rank, k, n) ==
    IF rank[a] # rank[b] THEN rank[a] < rank[b]
    ELSE LET ra == IF a + k < n THEN rank[a + k] ELSE -1
             rb == IF b + k < n THEN rank[b + k] ELSE -1
         IN  ra < rb

\* Insert position p into the sorted sequence s.
RECURSIVE InsertSorted(_, _, _, _, _)
InsertSorted(s, p, rank, k, n) ==
    IF Len(s) = 0 THEN <<p>>
    ELSE IF PairLess(p, s[1], rank, k, n) THEN <<p>> \o s
    ELSE <<s[1]>> \o InsertSorted(Tail(s), p, rank, k, n)

\* sort.Slice(sa.SA, less).  Positions whose pairs are equal may come out in
\* any order; they get equal new ranks, and the last round has no equal
\* pairs, so the array the construction returns does not depend on it.
RECURSIVE SortSlice(_, _, _, _)
SortSlice(s, rank, k, n) ==
    IF Len(s) = 0 THEN <<>>
    ELSE InsertSorted(SortSlice(Tail(s), rank, k, n), s[1], rank, k, n)

\* The new ranks of one doubling round: tmpRank[SA[0]] = 0, then one more
\* than the predecessor's whenever the pair differs from the predecessor's.
RECURSIVE NewRank(_, _, _, _, _)
NewRank(sa, rank, k, n, i) ==
    IF i = 1 THEN (sa[1] :> 0)
    ELSE LET prevR == NewRank(sa, rank, k, n, i - 1)
             prev  == sa[i - 1]
             curr  == sa[i]
             rPrev == IF prev + k < n THEN rank[prev + k] ELSE -1
             rCurr == IF curr + k < n THEN rank[curr + k] ELSE -1
             bump  == IF rank[prev] # rank[curr] \/ rPrev # rCurr THEN 1 ELSE 0
         IN  prevR @@ (curr :> prevR[prev] + bump)

\* The prefix-doubling loop, for k = 1, 2, 4, ... while k < n, left early
\* once all ranks differ.
RECURSIVE Doubling(_, _, _, _)
Doubling(sa, rank, k, n) ==
    IF k >= n THEN sa
    ELSE LET sorted == SortSlice(sa, rank, k, n)
             ranks  == NewRank(sorted, rank, k, n, n)
         IN  IF ranks[sorted[n]] = n - 1 THEN sorted
             ELSE Doubling(sorted, ranks, 2 * k, n)

\* BuildSuffixArray(text): Text and SA (0-based start positions, sorted by
\* suffix).
BuildSuffixArray(text) ==
    LET n == Len(text)
    IN  IF n = 0 THEN [Text |-> text, SA |-> <<>>]
        ELSE [Text |-> text,
              SA   |-> Doubling([i \in 1..n |-> i - 1],
                                [p \in 0..(n - 1) |-> Ord(text[p + 1])], 1, n)]

\* The two predicates of SuffixArray.Search handed to sort.Search, at index
\* i (0-based) of SA: "suffix >= pattern" for the left bound and
\* "suffix > pattern" for the right one, a suffix shorter than the pattern
\* being compared with the pattern's prefix of its length.
SearchPred(sa, pattern, i, strict) ==
    LET suffix == Slice(sa.Text, sa.SA[i + 1], Len(sa.Text))
        m      == Len(pattern)
        lhs    == IF Len(suffix) < m THEN suffix ELSE Slice(suffix, 0, m)
        rhs    == IF Len(suffix) < m THEN Slice(pattern, 0, Len(suffix)) ELSE pattern
    IN  IF strict THEN StrLess(rhs, lhs) ELSE ~StrLess(lhs, rhs)

\* sort.Search(n, f): binary search for the least index in [0, n) with f.
RECURSIVE SortSearch(_, _, _, _, _)
SortSearch(lo, hi, sa, pattern, strict) ==
    IF lo >= hi THEN lo
    ELSE LET h == (lo + hi) \div 2
         IN  IF ~SearchPred(sa, pattern, h, strict)
             THEN SortSearch(h + 1, hi, sa, pattern, strict)
             ELSE SortSearch(lo, h, sa, pattern, strict)

\* sort.Ints on a set of distinct offsets.
RECURSIVE SortInts(_)
SortInts(S) ==
    IF S = {} THEN <<>>
    ELSE LET lo == CHOOSE x \in S : \A y \in S : x <= y
         IN  <<lo>> \o SortInts(S \ {lo})

\* A Search that would return every offset between the two bounds.
SASearchBounds(sa, pattern) ==
    IF Len(pattern) = 0 \/ Len(sa.SA) = 0 THEN <<>>
    ELSE LET n     == Len(sa.SA)
             left  == SortSearch(0, n, sa, pattern, FALSE)
             right == SortSearch(0, n, sa, pattern, TRUE)
         IN  SortInts({sa.SA[i + 1] : i \in left..(right - 1)})

\* SuffixArray.Search(pattern): the offsets between the two bounds at which
\* the pattern really occurs, ascending.
SASearch(sa, pattern) ==
    IF Len(pattern) = 0 \/ Len(sa.SA) = 0 THEN <<>>
    ELSE LET n     == Len(sa.SA)
             m     == Len(pattern)
             left  == SortSearch(0, n, sa, pattern, FALSE)
             right == SortSearch(0, n, sa, pattern, TRUE)
             hits  == {sa.SA[i + 1] : i \in {j \in left..(right - 1) :
                          /\ sa.SA[j + 1] + m <= Len(sa.Text)
                          /\ Slice(sa.Text, sa.SA[j + 1], sa.SA[j + 1] + m) = pattern}}
         IN  SortInts(hits)


\* ------------------------------------------------------------ input domain

Sessions == {<<"A">>, <<"B">>}

\* The ResultKeys the operations are called with.
ResultKeys ==
    {[SessionID |-> <<"A">>, Key |-> <<"x">>],
     [SessionID |-> <<"A">>, Key |-> <<"y">>],
     [SessionID |-> <<"B">>, Key |-> <<"x">>]}

\* Two ResultKeys with ':' in them whose composite keys are the same string,
\* and the sessions they name.
AliasKeys ==
    {[SessionID |-> <<"A">>, Key |-> <<"x", ":", "y">>],
     [SessionID |-> <<"A", ":", "x">>, Key |-> <<"y">>]}

AliasSessions == {<<"A">>, <<"A", ":", "x">>}

\* Every ResultKey some operation is called with.
AllKeys == ResultKeys \cup AliasKeys

\* The contents stored: empty, one line, two lines.
Contents == {<<>>, <<"a">>, <<"b", NL, "a">>}

\* The contents a summary is made of: the strings of "a", "." and the
\* newline of up to MaxSummaryContent characters.
SummaryContents ==
    UNION {[1..n -> {"a", ".", NL}] : n \in 0..MaxSummaryContent}

\* The texts a suffix array is built of and the patterns it is searched
\* for: the strings of "a" and "b" of up to MaxText and MaxPattern
\* characters.
SearchTexts == UNION {[1..n -> {"a", "b"}] : n \in 0..MaxText}
SearchPatterns == UNION {[1..n -> {"a", "b"}] : n \in 0..MaxPattern}

\* The caps a summary is made with; zero and negative caps take the
\* defaults.
SummaryOptions ==
    [SummaryLength : {-1, 0, 1, 2, 3}, SummaryLines : {-1, 0, 1, 2, 3}]

\* The patterns searched: non-empty and without the sentinel.
Patterns == {<<"a">>, <<"b">>}

\* The key prefixes listed: every key, and the keys that begin with x.
Prefixes == {<<>>, <<"x">>}

\* The QueryOptions passed: the zero value, which lists everything.
QueryOptionsSet == {[Limit |-> 0, Offset |-> 0]}

\* The key GetLines is called with.
LineKeys == {[SessionID |-> <<"A">>, Key |-> <<"x">>]}

\* The LineRanges passed: one line, all lines, the last line, a range wider
\* than the content, an inverted range, a range past the end.
LineRanges ==
    {[Start |-> 1, End |-> 1], [Start |-> 1, End |-> 2], [Start |-> 2, End |-> 2],
     [Start |-> 0, End |-> 3], [Start |-> 2, End |-> 1], [Start |-> 3, End |-> 3]}

\* The limits searched with: none, and one match.
Limits == {0, 1}

\* The limits of the searches that are compared: negative, none, fewer
\* than, as many as and more than the matches there are.
SearchLimits == {-1, 0, 1, 2, 3}

\* The keys of the calls on a store whose database may fail.
FailKeys == {[SessionID |-> <<"A">>, Key |-> <<"x">>],
             [SessionID |-> <<"A">>, Key |-> <<"y">>]}

\* The QueryOptions of the lists that are compared: everything, and pages
\* of one entry.
PageOptions == [Limit : {0, 1}, Offset : {0, 1}]

\* The key two threads store and delete at the same time, and the contents
\* of the stores: the store that is the n-th call to begin has the n-th
\* content, so no two stores have the same.
SameKey == [SessionID |-> <<"A">>, Key |-> <<"x">>]
DistinctContents == <<<<>>, <<"a">>, <<"b", NL, "a">>>>

\* The threads that call the store concurrently.
Threads == {"t1", "t2"}

\* The stores made concurrently: two keys of one session, each with its own
\* content.
ConcStores ==
    {[key |-> [SessionID |-> <<"A">>, Key |-> <<"x">>], content |-> <<"a">>],
     [key |-> [SessionID |-> <<"A">>, Key |-> <<"y">>], content |-> <<"b", NL, "a">>]}

\* The session searched concurrently.
ConcSessions == {<<"A">>}

\* The StoreOptions passed: the zero value, which takes the defaults.
StoreOptionsSet == {[SummaryLength |-> 0, SummaryLines |-> 0]}

\* ------------------------------------------------------------------- state

VARIABLES
    keyIndex,         \* the radix tree: composite key -> ResultKey
    keyToHash,        \* composite key -> content hash
    contentIndex,     \* content hash -> Result (Metadata, Content)
    sessionIndex,     \* session id -> sequence of user keys
    searchIndex,      \* the installed suffix array, or NilIndex
    searchContent,    \* the installed concatenated buffer
    searchPositions,  \* the installed offset table
    searchDirty,      \* the index must be rebuilt before the next search
    last,             \* the operation that returned last, with its result
    expected,         \* history: ResultKey -> what the calls so far stored
    nops,             \* history: operations started so far
    pc,               \* per thread: the step its running call is at
    local,            \* per thread: the locals of its running call
    contentDB,        \* "nil", or "sqlite" when the store has a database
    results,          \* the results table: (session_id, key) -> row
    clock,            \* time.Now().Unix()
    closed,           \* history: Close was called on the store
    files,            \* the StoredFileContext's keys, most recent first
    added             \* history: the keys of the Add calls, oldest first

storeVars == <<keyIndex, keyToHash, contentIndex, sessionIndex>>
indexVars == <<searchIndex, searchContent, searchPositions>>
threadVars == <<pc, local>>
dbVars == <<contentDB, results, clock, closed>>
ctxVars == <<files, added>>
vars == <<keyIndex, keyToHash, contentIndex, sessionIndex, searchIndex,
          searchContent, searchPositions, searchDirty, last, expected, nops,
          pc, local, contentDB, results, clock, closed, files, added>>

\* A nil *dsa.SuffixArray.
NilIndex == [Text |-> <<>>, SA |-> <<>>, nil |-> TRUE]

\* What expected holds for a key that no call stored, or that was deleted.
Absent == [present |-> FALSE, content |-> <<>>]
Present(c) == [present |-> TRUE, content |-> c]

\* A map without the entry of k (Go's delete: nothing happens when absent).
MapDelete(f, k) == [x \in DOMAIN f \ {k} |-> f[x]]

\* A map with k bound to v (Go's f[k] = v).
MapPut(f, k, v) == (k :> v) @@ f

\* ----------------------------------------------------------------- helpers

\* computeContentHash: xxHash64 of the content in 16 hex digits, given here
\* by its values on Contents.
computeContentHash(content) ==
    CASE content = <<>>              -> "ef46db3751d8e999"
      [] content = <<"a">>           -> "d24ec4f1a98c6e5b"
      [] content = <<"b", NL, "a">>  -> "da3f0b7c8313e5e7"

\* countResultLines: 0 for the empty content, else newlines + 1.
countResultLines(content) ==
    IF Len(content) = 0 THEN 0 ELSE Count(content, NL) + 1

\* composeResultKey: SessionID + ":" + Key.
composeResultKey(key) == key.SessionID \o <<":">> \o key.Key

DefaultSummaryLength == 200
DefaultSummaryLines == 5

\* The loop of generateResultSummary over the lines from index i on: stop at
\* maxLines lines or once the summary has reached maxLen bytes.
RECURSIVE SummaryLoop(_, _, _, _, _, _)
SummaryLoop(lines, i, lineCount, summary, maxLines, maxLen) ==
    IF i > Len(lines) \/ lineCount >= maxLines \/ Len(summary) >= maxLen
    THEN summary
    ELSE SummaryLoop(lines, i + 1, lineCount + 1,
                     (IF Len(summary) > 0 THEN summary \o <<NL>> ELSE summary)
                         \o lines[i],
                     maxLines, maxLen)

\* generateResultSummary: the first lines, cut to maxLen bytes plus "...".
generateResultSummary(content, opts) ==
    LET maxLines == IF opts.SummaryLines <= 0 THEN DefaultSummaryLines
                    ELSE opts.SummaryLines
        maxLen   == IF opts.SummaryLength <= 0 THEN DefaultSummaryLength
                    ELSE opts.SummaryLength
        s        == SummaryLoop(Split(content), 1, 0, <<>>, maxLines, maxLen)
    IN  IF Len(s) > maxLen THEN Slice(s, 0, maxLen) \o <<".", ".", ".">> ELSE s

\* updateSessionIndex: append the user key unless the session lists it.
updateSessionIndex(si, key) ==
    LET keys == IF key.SessionID \in DOMAIN si THEN si[key.SessionID] ELSE <<>>
    IN  IF \E i \in 1..Len(keys) : keys[i] = key.Key THEN si
        ELSE MapPut(si, key.SessionID, Append(keys, key.Key))

\* ------------------------------------------------------- content database

\* The ContentResult Store persists for the metadata it returns: the row of
\* the metadata's key, stamped with the time of the call.  (created_at is
\* left out: no operation reads it.)
ContentResult(meta, content) ==
    [SessionID   |-> meta.Key.SessionID,
     Key         |-> meta.Key.Key,
     ContentHash |-> meta.ContentHash,
     Content     |-> content,
     Summary     |-> meta.Summary,
     LineCount   |-> meta.LineCount,
     ByteSize    |-> meta.ByteSize,
     AccessedAt  |-> clock,
     AccessCount |-> meta.AccessCount]

\* StoreResult: INSERT OR REPLACE on the primary key (session_id, key).
StoreResult(result) ==
    MapPut(results, [SessionID |-> result.SessionID, Key |-> result.Key], result)

\* UpdateResultAccess: stamp and count the row of (session_id, key), if any.
UpdateResultAccess(sessionID, key) ==
    LET pk == [SessionID |-> sessionID, Key |-> key]
    IN  IF pk \in DOMAIN results
        THEN [results EXCEPT ![pk].AccessedAt = clock, ![pk].AccessCount = @ + 1]
        ELSE results

\* DeleteResult: delete the row of (session_id, key).
DeleteResult(sessionID, key) ==
    MapDelete(results, [SessionID |-> sessionID, Key |-> key])

\* DeleteSessionResults: delete the rows of the session.
DeleteSessionResults(sessionID) ==
    [pk \in {q \in DOMAIN results : q.SessionID # sessionID} |-> results[pk]]

\* ------------------------------------------------------------------ lookup

\* The nil Result of Get and the nil metadata of GetMetadata.
NotFound == [found |-> FALSE]

\* The lookup Get and GetMetadata make under the read lock: composite key
\* to hash, hash to Result; the metadata is returned with the requested key.
Lookup(key) ==
    LET compositeKey == composeResultKey(key)
    IN  IF compositeKey \notin DOMAIN keyToHash THEN NotFound
        ELSE IF keyToHash[compositeKey] \notin DOMAIN contentIndex THEN NotFound
        ELSE LET result == contentIndex[keyToHash[compositeKey]]
             IN  [found    |-> TRUE,
                  Metadata |-> [result.Metadata EXCEPT !.Key = key],
                  Content  |-> result.Content]

\* ----------------------------------------------------------------- history

\* The arguments and the result of a call that has none.
NoArg == [none |-> TRUE]

\* What the lookup of Get and GetMetadata finds for every key of AllKeys.
Views == [k \in AllKeys |-> Lookup(k)]

\* The record of a call that returns: what it was called with, what it
\* returns, what the lookup found for every key when it took its last lock,
\* what the calls that had returned when it started had stored, and the
\* call that returned before it.
CallFrom(op, arg, ret, started) ==
    [op |-> op, arg |-> arg, ret |-> ret, pre |-> Views, started |-> started,
     after |-> [op |-> last.op, arg |-> last.arg, pre |-> last.pre]]

\* The record of a call that runs alone.
Call(op, arg, ret) == CallFrom(op, arg, ret, expected)

\* ------------------------------------------------------------------- Init

\* A ResultStore as its constructors make it: empty indexes, no search
\* index, dirty; no call has been made.  The StoredFileContext as
\* NewStoredFileContext makes it: no key.
EmptyStore ==
    /\ keyIndex = <<>>
    /\ keyToHash = <<>>
    /\ contentIndex = <<>>
    /\ sessionIndex = <<>>
    /\ searchIndex = NilIndex
    /\ searchContent = <<>>
    /\ searchPositions = <<>>
    /\ searchDirty = TRUE
    /\ last = [op |-> "new", arg |-> NoArg, ret |-> NoArg,
               pre |-> [k \in AllKeys |-> NotFound],
               started |-> [k \in AllKeys |-> Absent],
               after |-> [op |-> "new", arg |-> NoArg,
                          pre |-> [k \in AllKeys |-> NotFound]]]
    /\ expected = [k \in AllKeys |-> Absent]
    /\ nops = 0
    /\ pc = [t \in Threads |-> "idle"]
    /\ local = [t \in Threads |-> NoArg]
    /\ results = <<>>
    /\ clock = 0
    /\ closed = FALSE
    /\ files = <<>>
    /\ added = <<>>

\* NewInMemoryResultStore: no content database.
Init == EmptyStore /\ contentDB = "nil"

\* NewResultStore on a new database: nothing to load.
InitDB == EmptyStore /\ contentDB = "sqlite"

\* ------------------------------------------------------------------ Store

\* The metadata Store builds before it takes the lock.
NewMetadata(key, content, opts) ==
    [Key         |-> key,
     ContentHash |-> computeContentHash(content),
     Summary     |-> generateResultSummary(content, opts),
     LineCount   |-> countResultLines(content),
     ByteSize    |-> Len(content),
     AccessCount |-> 1]

\* A Store that would return the metadata it built before the lock also
\* when the content is known.
StoreReturnFresh(key, content, opts) == NewMetadata(key, content, opts)

\* The metadata Store returns: the existing Result's, counted once more and
\* with the requested key, when the content is known; else the new one.
StoreReturn(key, content, opts) ==
    LET hash == computeContentHash(content)
    IN  IF hash \in DOMAIN contentIndex
        THEN [contentIndex[hash].Metadata EXCEPT
                 !.AccessCount = @ + 1, !.Key = key]
        ELSE NewMetadata(key, content, opts)

\* Store's critical section: reuse or insert the Result of the hash, bind
\* the composite key, list the key in its session, mark the index dirty.
StoreLocked(key, content, opts) ==
    LET hash         == computeContentHash(content)
        compositeKey == composeResultKey(key)
    IN  /\ contentIndex' =
              IF hash \in DOMAIN contentIndex
              THEN [contentIndex EXCEPT ![hash].Metadata.AccessCount = @ + 1]
              ELSE MapPut(contentIndex, hash,
                          [Metadata |-> NewMetadata(key, content, opts),
                           Content  |-> content])
        /\ keyIndex' = MapPut(keyIndex, compositeKey, key)
        /\ keyToHash' = MapPut(keyToHash, compositeKey, hash)
        /\ sessionIndex' = updateSessionIndex(sessionIndex, key)
        /\ searchDirty' = TRUE
        /\ UNCHANGED indexVars

\* What Store does after its critical section: with a content database,
\* persist the row of the metadata it returns.
StorePersist(key, content, opts) ==
    results' = IF contentDB = "nil" THEN results
               ELSE StoreResult(ContentResult(StoreReturn(key, content, opts),
                                              content))

\* Store(key, content, opts): the critical section, then the row.  (On a
\* closed store the maps are nil and the call panics at its first map
\* assignment.)
Store(key, content, opts) ==
    /\ nops < MaxOps
    /\ ~closed
    /\ StoreLocked(key, content, opts)
    /\ StorePersist(key, content, opts)
    /\ last' = Call("store", [key |-> key, content |-> content],
                    StoreReturn(key, content, opts))
    /\ expected' = [expected EXCEPT ![key] = Present(content)]
    /\ nops' = nops + 1
    /\ UNCHANGED <<threadVars, contentDB, clock, ctxVars, closed>>

\* The errors StoreResult returns to Store: the database fails to execute
\* the INSERT, or the caller's context is cancelled before or while it
\* executes.
StoreResultErrors == {"database", "canceled"}

\* The error Store returns for the error of StoreResult, with the zero
\* metadata.
StoreError(err) == [err |-> <<"failed to persist to SQLite", err>>]

\* A Store that would persist the row before it takes the lock, and return
\* the error of StoreResult with the indexes untouched.
StoreFailedUntouched(key, content, opts, err) ==
    /\ nops < MaxOps
    /\ ~closed
    /\ contentDB # "nil"
    /\ last' = Call("store", [key |-> key, content |-> content], StoreError(err))
                   @@ [dbErr |-> err]
    /\ nops' = nops + 1
    /\ UNCHANGED <<storeVars, indexVars, searchDirty, expected, threadVars,
                   dbVars, ctxVars>>

\* Store(key, content, opts) on a store with a content database whose
\* StoreResult returns an error: the critical section, no row, the error.
\* (Store itself never looks at the context.  The call is not counted among
\* the stores that returned.)
StoreFailed(key, content, opts, err) ==
    /\ nops < MaxOps
    /\ ~closed
    /\ contentDB # "nil"
    /\ StoreLocked(key, content, opts)
    /\ last' = Call("store", [key |-> key, content |-> content], StoreError(err))
                   @@ [dbErr |-> err]
    /\ nops' = nops + 1
    /\ UNCHANGED <<expected, threadVars, dbVars, ctxVars>>

\* The summary Store puts into the metadata of a content it holds for the
\* first time: generateResultSummary applied to the content and the options,
\* once in a run.
GenerateSummary(content, opts) ==
    /\ nops = 0
    /\ last' = Call("summary", [content |-> content, opts |-> opts],
                    [summary |-> generateResultSummary(content, opts)])
    /\ nops' = 1
    /\ UNCHANGED <<storeVars, indexVars, searchDirty, expected, threadVars,
                   dbVars, ctxVars>>

\* BuildSuffixArray(text).Search(pattern), once in a run: the array built
\* and the offsets returned.
SearchText(text, pattern) ==
    /\ nops = 0
    /\ last' = Call("sa_search", [text |-> text, pattern |-> pattern],
                    [SA      |-> BuildSuffixArray(text).SA,
                     offsets |-> SASearch(BuildSuffixArray(text), pattern)])
    /\ nops' = 1
    /\ UNCHANGED <<storeVars, indexVars, searchDirty, expected, threadVars,
                   dbVars, ctxVars>>

\* -------------------------------------------------------- Get, GetMetadata

\* A Get that would return the metadata as it copied it under the read
\* lock.
GetReturnCopied(key) == Lookup(key)

\* Get(key): absent, or the Result with its access counted once more.
GetReturn(key) ==
    LET r == Lookup(key)
    IN  IF ~r.found THEN r
        ELSE [r EXCEPT !.Metadata.AccessCount = @ + 1]

\* What Get does after its critical sections when it found the key: with a
\* content database, count the access in the row of the key.
GetPersist(key) ==
    results' = IF contentDB # "nil" /\ Lookup(key).found
               THEN UpdateResultAccess(key.SessionID, key.Key)
               ELSE results

\* The critical sections of a Get(key) that runs alone: the lookup, then
\* the access count of the Result raised under the write lock.
GetLocked(key) ==
    contentIndex' =
        IF Lookup(key).found
        THEN [contentIndex EXCEPT
                 ![keyToHash[composeResultKey(key)]].Metadata.AccessCount = @ + 1]
        ELSE contentIndex

\* Get(key) run alone: the critical sections, then the row.
Get(key) ==
    /\ nops < MaxOps
    /\ GetLocked(key)
    /\ GetPersist(key)
    /\ last' = Call("get", [key |-> key], GetReturn(key))
    /\ nops' = nops + 1
    /\ UNCHANGED <<keyIndex, keyToHash, sessionIndex, indexVars, searchDirty,
                   expected, threadVars, contentDB, clock, ctxVars, closed>>

\* GetMetadata(key): the lookup alone.
GetMetadata(key) ==
    /\ nops < MaxOps
    /\ last' = Call("get_metadata", [key |-> key], Lookup(key))
    /\ nops' = nops + 1
    /\ UNCHANGED <<storeVars, indexVars, searchDirty, expected, threadVars,
                   dbVars, ctxVars>>

\* --------------------------------------------------- Delete, DeleteSession

\* keys without its first element equal to k (append(keys[:i], keys[i+1:])).
RECURSIVE RemoveFirst(_, _)
RemoveFirst(keys, k) ==
    IF Len(keys) = 0 THEN <<>>
    ELSE IF keys[1] = k THEN Tail(keys)
    ELSE <<keys[1]>> \o RemoveFirst(Tail(keys), k)

\* Delete's critical section for a key that is bound: drop the Result of
\* its hash, the binding, the tree entry and the session's listing of it.
DeleteLocked(key) ==
    LET compositeKey == composeResultKey(key)
        hash         == keyToHash[compositeKey]
    IN  /\ contentIndex' = MapDelete(contentIndex, hash)
        /\ keyToHash' = MapDelete(keyToHash, compositeKey)
        /\ keyIndex' = MapDelete(keyIndex, compositeKey)
        /\ sessionIndex' =
               IF key.SessionID \in DOMAIN sessionIndex
               THEN [sessionIndex EXCEPT ![key.SessionID] = RemoveFirst(@, key.Key)]
               ELSE sessionIndex
        /\ searchDirty' = TRUE
        /\ UNCHANGED indexVars

\* Delete(key): nothing changes when the key is not bound; else the
\* critical section, then, with a content database, the row is deleted.
Delete(key) ==
    /\ nops < MaxOps
    /\ IF composeResultKey(key) \in DOMAIN keyToHash
       THEN /\ DeleteLocked(key)
            /\ results' = IF contentDB = "nil" THEN results
                           ELSE DeleteResult(key.SessionID, key.Key)
       ELSE UNCHANGED <<storeVars, indexVars, searchDirty, results>>
    /\ last' = Call("delete", [key |-> key], NoArg)
    /\ expected' = [expected EXCEPT ![key] = Absent]
    /\ nops' = nops + 1
    /\ UNCHANGED <<threadVars, contentDB, clock, ctxVars, closed>>

\* The composite keys of the user keys a session lists.
SessionCompositeKeys(sessionID) ==
    {composeResultKey([SessionID |-> sessionID, Key |-> sessionIndex[sessionID][i]]) :
        i \in 1..Len(sessionIndex[sessionID])}

\* DeleteSession's critical section for a session that has a list: for each
\* listed key drop the Result of its hash, the binding and the tree entry,
\* then the list.
DeleteSessionLocked(sessionID) ==
    LET cks    == SessionCompositeKeys(sessionID)
        hashes == {keyToHash[ck] : ck \in cks \cap DOMAIN keyToHash}
    IN  /\ contentIndex' = [h \in DOMAIN contentIndex \ hashes |-> contentIndex[h]]
        /\ keyToHash' = [ck \in DOMAIN keyToHash \ cks |-> keyToHash[ck]]
        /\ keyIndex' = [ck \in DOMAIN keyIndex \ cks |-> keyIndex[ck]]
        /\ sessionIndex' = MapDelete(sessionIndex, sessionID)
        /\ searchDirty' = TRUE
        /\ UNCHANGED indexVars

\* DeleteSession(sessionID): nothing changes when the session has no list;
\* else the critical section, then, with a content database, the rows of
\* the session are deleted.
DeleteSession(sessionID) ==
    /\ nops < MaxOps
    /\ IF sessionID \in DOMAIN sessionIndex
       THEN /\ DeleteSessionLocked(sessionID)
            /\ results' = IF contentDB = "nil" THEN results
                           ELSE DeleteSessionResults(sessionID)
       ELSE UNCHANGED <<storeVars, indexVars, searchDirty, results>>
    /\ last' = Call("delete_session", [session |-> sessionID], NoArg)
    /\ expected' = [k \in AllKeys |->
                       IF k.SessionID = sessionID THEN Absent ELSE expected[k]]
    /\ nops' = nops + 1
    /\ UNCHANGED <<threadVars, contentDB, clock, ctxVars, closed>>

\* ------------------------------------------------------------------ Search

\* The sequences that list every element of S once: the orders in which a
\* range over a Go map may visit its entries.
Orders(S) ==
    {f \in [1..Cardinality(S) -> S] : \A i, j \in 1..Cardinality(S) :
                                          f[i] = f[j] => i = j}

\* The hashes of the Results the rebuild collects for a session: those whose
\* own metadata key names the session.
SessionHashes(sessionID) ==
    {h \in DOMAIN contentIndex : contentIndex[h].Metadata.Key.SessionID = sessionID}

\* The items the rebuild collects under the read lock, in one of the orders
\* the map iteration may take.
CollectItems(sessionID) ==
    {[i \in 1..Len(order) |->
         [key     |-> contentIndex[order[i]].Metadata.Key,
          content |-> contentIndex[order[i]].Content]] :
     order \in Orders(SessionHashes(sessionID))}

\* The buffer the rebuild writes: every content followed by the sentinel.
RECURSIVE BuildContent(_)
BuildContent(items) ==
    IF Len(items) = 0 THEN <<>>
    ELSE items[1].content \o <<NUL>> \o BuildContent(Tail(items))

\* The offset table the rebuild writes: for every item its key, start and
\* end (the offset of its sentinel) in the buffer.
RECURSIVE BuildPositions(_, _)
BuildPositions(items, start) ==
    IF Len(items) = 0 THEN <<>>
    ELSE <<[key   |-> items[1].key,
            start |-> start,
            end   |-> start + Len(items[1].content)]>>
         \o BuildPositions(Tail(items), start + Len(items[1].content) + 1)

\* What the rebuild installs for the items it collected: buffer, suffix
\* array (nil for an empty buffer) and offset table.
BuiltIndex(items) ==
    LET content == BuildContent(items)
    IN  [searchContent   |-> content,
         searchIndex     |-> IF Len(content) > 0 THEN BuildSuffixArray(content)
                             ELSE NilIndex,
         searchPositions |-> BuildPositions(items, 0)]

\* The first entry of the offset table that is of the session and holds the
\* offset, as a sequence of at most one entry.
RECURSIVE OwnerOf(_, _, _)
OwnerOf(positions, sessionID, pos) ==
    IF Len(positions) = 0 THEN <<>>
    ELSE IF /\ positions[1].key.SessionID = sessionID
            /\ pos >= positions[1].start
            /\ pos < positions[1].end
    THEN <<positions[1]>>
    ELSE OwnerOf(Tail(positions), sessionID, pos)

\* The SearchMatch of Search for an offset pos of the buffer owned by sp:
\* the position within the result, the line counted over the buffer before
\* pos, the context from the newline before pos to the one after it.
MatchAt(content, sp, pos) ==
    LET lineStart == LastIndex(Slice(content, 0, pos), NL) + 1
        idx       == Index(Slice(content, pos, Len(content)), NL)
        lineEnd   == IF idx = -1 THEN Len(content) ELSE idx + pos
    IN  [Key      |-> sp.key,
         Position |-> pos - sp.start,
         Line     |-> Count(Slice(content, 0, pos), NL) + 1,
         Context  |-> Slice(content, lineStart, lineEnd)]

\* A loop of Search that would stop only when it has more than limit
\* matches.
RECURSIVE MatchLoopOver(_, _, _, _, _, _, _)
MatchLoopOver(offsets, i, matches, sessionID, limit, content, positions) ==
    IF i > Len(offsets) \/ (limit > 0 /\ Len(matches) > limit) THEN matches
    ELSE LET owner == OwnerOf(positions, sessionID, offsets[i])
         IN  MatchLoopOver(offsets, i + 1,
                           IF Len(owner) = 0 THEN matches
                           ELSE Append(matches, MatchAt(content, owner[1], offsets[i])),
                           sessionID, limit, content, positions)

\* The loop of Search over the offsets the suffix array returned, from the
\* i-th on: stop at limit matches when limit is positive.
RECURSIVE MatchLoop(_, _, _, _, _, _, _)
MatchLoop(offsets, i, matches, sessionID, limit, content, positions) ==
    IF i > Len(offsets) \/ (limit > 0 /\ Len(matches) >= limit) THEN matches
    ELSE LET owner == OwnerOf(positions, sessionID, offsets[i])
         IN  MatchLoop(offsets, i + 1,
                       IF Len(owner) = 0 THEN matches
                       ELSE Append(matches, MatchAt(content, owner[1], offsets[i])),
                       sessionID, limit, content, positions)

\* What Search returns from an installed index: nothing without an index or
\* with an empty buffer, else the matches of the pattern's offsets.
SearchQuery(sessionID, pattern, limit, index, content, positions) ==
    IF index = NilIndex \/ Len(content) = 0 THEN <<>>
    ELSE MatchLoop(SASearch(index, pattern), 1, <<>>, sessionID, limit,
                   content, positions)

\* The first part of a Search(sessionID, ...) run alone: when the index is
\* dirty, rebuild it from the session's items and mark it clean.
SearchRebuild(sessionID) ==
    IF searchDirty
    THEN \E items \in CollectItems(sessionID) :
             LET built == BuiltIndex(items)
             IN  /\ searchContent' = built.searchContent
                 /\ searchIndex' = built.searchIndex
                 /\ searchPositions' = built.searchPositions
                 /\ searchDirty' = FALSE
    ELSE UNCHANGED <<indexVars, searchDirty>>

\* Search(sessionID, pattern, limit) run alone: when the index is dirty,
\* rebuild it from the session's items and mark it clean; then query it.
Search(sessionID, pattern, limit) ==
    /\ nops < MaxOps
    /\ SearchRebuild(sessionID)
    /\ last' = Call("search",
                    [session |-> sessionID, pattern |-> pattern, limit |-> limit],
                    SearchQuery(sessionID, pattern, limit, searchIndex',
                                searchContent', searchPositions'))
    /\ nops' = nops + 1
    /\ UNCHANGED <<storeVars, expected, threadVars, dbVars, ctxVars>>

\* ---------------------------------------------------------------- GetLines

\* A GetLines that would take lineRange.Start for the 0-based index of the
\* first line.
GetLinesReturnFromStart(result, lineRange) ==
    IF ~result.found THEN <<>>
    ELSE LET lines == Split(result.Content)
             start == IF lineRange.Start < 0 THEN 0 ELSE lineRange.Start
             end   == IF lineRange.End > Len(lines) THEN Len(lines)
                      ELSE lineRange.End
         IN  IF start >= end THEN <<>> ELSE Join(Slice(lines, start, end))

\* What GetLines returns for the Result Get returned: "" for nil; else the
\* lines from index Start - 1 (at least 0) to index End (at most their
\* number), joined, or "" when no line is in between.
GetLinesReturn(result, lineRange) ==
    IF ~result.found THEN <<>>
    ELSE LET lines == Split(result.Content)
             start == IF lineRange.Start - 1 < 0 THEN 0 ELSE lineRange.Start - 1
             end   == IF lineRange.End > Len(lines) THEN Len(lines)
                      ELSE lineRange.End
         IN  IF start >= end THEN <<>> ELSE Join(Slice(lines, start, end))

\* GetLines(key, lineRange): a Get of the key, then the lines of its content.
GetLines(key, lineRange) ==
    /\ nops < MaxOps
    /\ GetLocked(key)
    /\ GetPersist(key)
    /\ last' = Call("get_lines", [key |-> key, range |-> lineRange],
                    GetLinesReturn(GetReturn(key), lineRange))
    /\ nops' = nops + 1
    /\ UNCHANGED <<keyIndex, keyToHash, sessionIndex, indexVars, searchDirty,
                   expected, threadVars, contentDB, clock, ctxVars, closed>>

\* ------------------------------------------------------------- GetByPrefix

\* strings.HasPrefix: s begins with prefix.
HasPrefix(s, prefix) ==
    Len(prefix) <= Len(s) /\ Slice(s, 0, Len(prefix)) = prefix

\* The strings of S in ascending order: the order in which the radix tree
\* walks its keys.
RECURSIVE SortStrings(_)
SortStrings(S) ==
    IF S = {} THEN <<>>
    ELSE LET m == CHOOSE x \in S : \A y \in S \ {x} : StrLess(x, y)
         IN  <<m>> \o SortStrings(S \ {m})

\* Trie.StartsWith: the keys of the tree that begin with prefix, in order.
StartsWith(prefix) ==
    SortStrings({ck \in DOMAIN keyIndex : HasPrefix(ck, prefix)})

\* The loop of GetByPrefix over the composite keys from the i-th on: skip a
\* key without binding or without Result, else append the Result's metadata
\* with the ResultKey the tree holds for the composite key.
RECURSIVE PrefixLoop(_, _, _)
PrefixLoop(keys, i, metas) ==
    IF i > Len(keys) THEN metas
    ELSE LET compositeKey == keys[i]
         IN  IF compositeKey \notin DOMAIN keyToHash
             THEN PrefixLoop(keys, i + 1, metas)
             ELSE IF keyToHash[compositeKey] \notin DOMAIN contentIndex
             THEN PrefixLoop(keys, i + 1, metas)
             ELSE PrefixLoop(keys, i + 1,
                      Append(metas,
                             [contentIndex[keyToHash[compositeKey]].Metadata
                                  EXCEPT !.Key = keyIndex[compositeKey]]))

\* What GetByPrefix returns: the metadata of the keys under sessionID + ":"
\* + prefix.
GetByPrefixReturn(sessionID, prefix) ==
    PrefixLoop(StartsWith(sessionID \o <<":">> \o prefix), 1, <<>>)

\* GetByPrefix(sessionID, prefix): a read of the store.
GetByPrefix(sessionID, prefix) ==
    /\ nops < MaxOps
    /\ last' = Call("get_by_prefix", [session |-> sessionID, prefix |-> prefix],
                    GetByPrefixReturn(sessionID, prefix))
    /\ nops' = nops + 1
    /\ UNCHANGED <<storeVars, indexVars, searchDirty, expected, threadVars,
                   dbVars, ctxVars>>

\* -------------------------------------------------------------------- List

\* The metadata List collects: that of every Result whose own metadata key
\* names the session, in one of the orders the map iteration may take.
ListCollect(sessionID) ==
    {[i \in 1..Len(order) |-> contentIndex[order[i]].Metadata] :
     order \in Orders(SessionHashes(sessionID))}

\* The pagination of List: drop opts.Offset entries (none are left when the
\* offset reaches the length), then keep at most opts.Limit when positive.
Paginate(metas, opts) ==
    LET cut(r) == IF opts.Limit > 0 /\ opts.Limit < Len(r)
                  THEN Slice(r, 0, opts.Limit) ELSE r
    IN  IF opts.Offset > 0 /\ opts.Offset < Len(metas)
        THEN cut(Slice(metas, opts.Offset, Len(metas)))
        ELSE IF opts.Offset >= Len(metas) THEN <<>>
        ELSE cut(metas)

\* List(sessionID, opts): a read of the store.
List(sessionID, opts) ==
    /\ nops < MaxOps
    /\ \E metas \in ListCollect(sessionID) :
           last' = Call("list", [session |-> sessionID, opts |-> opts],
                        Paginate(metas, opts))
    /\ nops' = nops + 1
    /\ UNCHANGED <<storeVars, indexVars, searchDirty, expected, threadVars,
                   dbVars, ctxVars>>

\* ------------------------------------------------------ Close and reopen

\* LoadAllResults: the rows of the table ORDER BY accessed_at DESC, rows of
\* the same second in any order.
LoadAllResults ==
    {[i \in 1..Len(order) |-> results[order[i]]] :
     order \in {o \in Orders(DOMAIN results) :
                   \A i, j \in 1..Len(o) :
                       i < j => results[o[i]].AccessedAt >= results[o[j]].AccessedAt}}

\* The loop of loadFromContentStorage over the rows from the i-th on: the
\* row's Result replaces the Result of its hash, its key is bound, put in
\* the tree and listed in its session.
RECURSIVE LoadLoop(_, _, _)
LoadLoop(rows, i, st) ==
    IF i > Len(rows) THEN st
    ELSE LET r   == rows[i]
             key == [SessionID |-> r.SessionID, Key |-> r.Key]
             meta == [Key         |-> key,
                      ContentHash |-> r.ContentHash,
                      Summary     |-> r.Summary,
                      LineCount   |-> r.LineCount,
                      ByteSize    |-> r.ByteSize,
                      AccessCount |-> r.AccessCount]
             compositeKey == composeResultKey(key)
         IN  LoadLoop(rows, i + 1,
                 [contentIndex |-> MapPut(st.contentIndex, meta.ContentHash,
                                          [Metadata |-> meta, Content |-> r.Content]),
                  keyIndex     |-> MapPut(st.keyIndex, compositeKey, key),
                  keyToHash    |-> MapPut(st.keyToHash, compositeKey, meta.ContentHash),
                  sessionIndex |-> updateSessionIndex(st.sessionIndex, key)])

\* A Close that would close the database on every call.
CloseReturnAlways == [err |-> "nil", closesDB |-> TRUE]

\* What Close returns, and whether it calls Close on the database: it does
\* when the handle it took under the lock is not nil.
CloseReturn == [err |-> "nil", closesDB |-> contentDB # "nil"]

\* Close(): drop the maps, the search index and the database handle (the
\* tree and the dirty flag stay), then close the database if the handle was
\* not nil; its rows stay.
Close ==
    /\ contentIndex' = <<>>
    /\ keyToHash' = <<>>
    /\ sessionIndex' = <<>>
    /\ searchIndex' = NilIndex
    /\ searchContent' = <<>>
    /\ searchPositions' = <<>>
    /\ contentDB' = "nil"
    /\ closed' = TRUE
    /\ last' = Call("close", NoArg, CloseReturn)
    /\ UNCHANGED <<keyIndex, searchDirty, expected, nops, threadVars, results,
                   clock, ctxVars>>

\* NewResultStore(db) on the database of a store that was closed: a new
\* store, dirty and without search index, loaded from the rows.
NewResultStore ==
    /\ closed
    /\ \E rows \in LoadAllResults :
           LET st == LoadLoop(rows, 1, [contentIndex |-> <<>>, keyIndex |-> <<>>,
                                        keyToHash |-> <<>>, sessionIndex |-> <<>>])
           IN  /\ contentIndex' = st.contentIndex
               /\ keyIndex' = st.keyIndex
               /\ keyToHash' = st.keyToHash
               /\ sessionIndex' = st.sessionIndex
    /\ searchIndex' = NilIndex
    /\ searchContent' = <<>>
    /\ searchPositions' = <<>>
    /\ searchDirty' = TRUE
    /\ contentDB' = "sqlite"
    /\ closed' = FALSE
    /\ last' = Call("open", NoArg, NoArg)
    /\ UNCHANGED <<expected, nops, threadVars, results, clock, ctxVars>>

\* A second passes.
Tick ==
    /\ clock < MaxClock
    /\ clock' = clock + 1
    /\ UNCHANGED <<storeVars, indexVars, searchDirty, last, expected, nops,
                   threadVars, contentDB, results, closed, ctxVars>>

\* ------------------------------------------------------ StoredFileContext

\* The number of keys the StoredFileContext keeps.
MaxStoredFiles == 10

\* The keys added to the StoredFileContext, in the order in which they are
\* added for the first time: one more than it keeps.
FileNames == <<(<<"a">>), (<<"b">>), (<<"c">>), (<<"d">>), (<<"e">>), (<<"f">>),
               (<<"g">>), (<<"h">>), (<<"i">>), (<<"j">>), (<<"k">>)>>

\* The keys an Add is called with: the next key of FileNames that was not
\* added yet, or a key that was.
AddKeys ==
    LET old == {added[i] : i \in 1..Len(added)}
    IN  (IF Cardinality(old) < Len(FileNames)
         THEN {FileNames[Cardinality(old) + 1]} ELSE {})
        \cup (IF Len(added) - Cardinality(old) < MaxReAdds THEN old ELSE {})

\* An Add that would keep every key.
AddFilesUnbounded(key) == <<key>> \o files

\* The keys after Add(key): the key in front of the others, cut to the
\* first ten.
AddFiles(key) ==
    LET f == <<key>> \o files
    IN  IF Len(f) > MaxStoredFiles THEN SubSeq(f, 1, MaxStoredFiles) ELSE f

\* StoredFileContext.Add(key).
Add(key) ==
    /\ files' = AddFiles(key)
    /\ added' = Append(added, key)
    /\ UNCHANGED <<storeVars, indexVars, searchDirty, last, expected, nops,
                   threadVars, dbVars>>

\* StoredFileContext.Last(): the first key, or "" when there is none.
Last == IF Len(files) = 0 THEN <<>> ELSE files[1]

\* StoredFileContext.List(): a copy of the keys.
FilesList == [i \in 1..Len(files) |-> files[i]]

\* --------------------------------------------------------- retrieval tools

\* The session the tools are made for.
ToolSession == <<"A">>

\* The keys stored in the session of the tools.
ToolStoreKeys == {k \in ResultKeys : k.SessionID = ToolSession}

\* The keys added to the StoredFileContext of the tools.
ToolAddKeys == IF Len(added) < MaxToolAdds THEN {<<"x">>} ELSE {}

\* The arguments of the tools: patterns, one of them blank; limits (absent,
\* zero, positive); keys, "" for none; a range of lines.
ToolPatterns == {<<" ">>, <<"a">>}
ToolLimits == {[nil |-> TRUE], [nil |-> FALSE, value |-> 0],
               [nil |-> FALSE, value |-> 1]}
ToolKeyArgs == {<<>>, <<"y">>}
ToolRanges == {[Start |-> 1, End |-> 1]}

\* A ToolResult with an output, and one with an error.
SuccessResult(output) == [Output |-> output]
FailureResult(err) == [Error |-> err]

\* strings.TrimSpace(s) = "" for the strings of the model.
Blank(s) == \A i \in 1..Len(s) : s[i] \in {" ", NL}

\* The limit search_stored searches with when none, or none above zero, is
\* given, and the limit list_stored lists with.
DefaultSearchLimit == 20
ListStoredLimit == 100

\* The output of search_stored: its header with the number of matches and
\* the pattern, then number, key, line and context of each match.
SearchStoredReturn(pattern, matches) ==
    IF Len(matches) = 0
    THEN SuccessResult(<<"No matches found for pattern: ", pattern>>)
    ELSE SuccessResult(<<"Found matches", Len(matches), pattern,
                         [i \in 1..Len(matches) |->
                             <<i, matches[i].Key.Key, matches[i].Line,
                               matches[i].Context>>]>>)

\* SearchStoredTool.Execute: fail on a blank pattern, else Search the
\* session with the limit given, or the default one, and format the matches.
SearchStoredExecute(pattern, limitArg) ==
    LET limit == IF ~limitArg.nil /\ limitArg.value > 0 THEN limitArg.value
                 ELSE DefaultSearchLimit
        arg   == [pattern |-> pattern, limit |-> limitArg]
    IN  /\ nops < MaxOps
        /\ IF Blank(pattern)
           THEN /\ UNCHANGED <<indexVars, searchDirty>>
                /\ last' = Call("search_stored", arg,
                                FailureResult("pattern cannot be empty"))
           ELSE /\ SearchRebuild(ToolSession)
                /\ last' = Call("search_stored", arg,
                                SearchStoredReturn(pattern,
                                    SearchQuery(ToolSession, pattern, limit,
                                                searchIndex', searchContent',
                                                searchPositions')))
        /\ nops' = nops + 1
        /\ UNCHANGED <<storeVars, expected, threadVars, dbVars, ctxVars>>

\* The output of get_lines for the lines GetLines returned.
GetLinesToolReturn(fileKey, lineRange, lines) ==
    IF lines = <<>>
    THEN SuccessResult(<<"No content found for key", fileKey,
                         lineRange.Start, lineRange.End>>)
    ELSE SuccessResult(<<"Lines of", lineRange.Start, lineRange.End, fileKey,
                         lines>>)

\* GetLinesTool.Execute: take the key given or else the last key of the
\* StoredFileContext, fail when there is neither, else GetLines of the key
\* in the session and format the lines.
GetLinesExecute(keyArg, lineRange) ==
    LET fileKey == IF keyArg = <<>> THEN Last ELSE keyArg
        key     == [SessionID |-> ToolSession, Key |-> fileKey]
        arg     == [key |-> keyArg, range |-> lineRange]
    IN  /\ nops < MaxOps
        /\ IF fileKey = <<>>
           THEN /\ UNCHANGED <<contentIndex, results>>
                /\ last' = Call("get_lines_tool", arg,
                       FailureResult("no key provided and no files have been stored yet"))
           ELSE /\ GetLocked(key)
                /\ GetPersist(key)
                /\ last' = Call("get_lines_tool", arg,
                       GetLinesToolReturn(fileKey, lineRange,
                           GetLinesReturn(GetReturn(key), lineRange)))
        /\ nops' = nops + 1
        /\ UNCHANGED <<keyIndex, keyToHash, sessionIndex, indexVars, searchDirty,
                       expected, threadVars, contentDB, clock, closed, ctxVars>>

\* The preview list_stored shows of a summary: its first line, cut to 60
\* bytes and marked when longer.
Preview(summary) ==
    LET firstLine == Split(summary)[1]
    IN  IF Len(firstLine) > 60 THEN Slice(firstLine, 0, 60) \o <<".", ".", ".">>
        ELSE firstLine

\* The output of list_stored: its header with the prefix and the number of
\* items, then key, lines, bytes and, for a summary that is not empty, the
\* preview of each item.
ListStoredReturn(prefix, metas) ==
    IF Len(metas) = 0
    THEN SuccessResult(<<"No stored content", prefix>>)
    ELSE SuccessResult(<<"Stored content", prefix, Len(metas),
                         [i \in 1..Len(metas) |->
                             <<metas[i].Key.Key, metas[i].LineCount,
                               metas[i].ByteSize,
                               IF metas[i].Summary # <<>>
                               THEN <<Preview(metas[i].Summary)>> ELSE <<>> >>]>>)

\* ListStoredTool.Execute: GetByPrefix with a prefix, List with limit 100
\* without, and format the metadata.
ListStoredExecute(prefix) ==
    /\ nops < MaxOps
    /\ \E metas \in (IF prefix # <<>>
                      THEN {GetByPrefixReturn(ToolSession, prefix)}
                      ELSE {Paginate(m, [Limit |-> ListStoredLimit, Offset |-> 0]) :
                               m \in ListCollect(ToolSession)}) :
           last' = Call("list_stored", [prefix |-> prefix],
                        ListStoredReturn(prefix, metas))
    /\ nops' = nops + 1
    /\ UNCHANGED <<storeVars, indexVars, searchDirty, expected, threadVars,
                   dbVars, ctxVars>>

\* ------------------------------------------------------- concurrent calls

\* Thread t calls Store(key, content, opts): the critical section and the
\* row, after which the call returns.
ConcStore(t, key, content, opts) ==
    /\ pc[t] = "idle"
    /\ nops < MaxConcOps
    /\ ~closed
    /\ StoreLocked(key, content, opts)
    /\ StorePersist(key, content, opts)
    /\ last' = Call("store", [key |-> key, content |-> content],
                    StoreReturn(key, content, opts))
    /\ expected' = [expected EXCEPT ![key] = Present(content)]
    /\ nops' = nops + 1
    /\ UNCHANGED <<threadVars, contentDB, clock, ctxVars, closed>>

\* Thread t calls Search: under the read lock it reads whether the index is
\* dirty, and goes on to rebuild it or to query it.
SearchBegin(t, sessionID, pattern, limit) ==
    /\ pc[t] = "idle"
    /\ nops < MaxConcOps
    /\ local' = [local EXCEPT ![t] =
                    [session |-> sessionID, pattern |-> pattern, limit |-> limit,
                     started |-> expected]]
    /\ pc' = [pc EXCEPT ![t] = IF searchDirty THEN "collect" ELSE "query"]
    /\ nops' = nops + 1
    /\ UNCHANGED <<storeVars, indexVars, searchDirty, last, expected, dbVars, ctxVars>>

\* rebuildSearchIndexForSession, first lock: collect the session's items
\* under the read lock.
RebuildCollect(t) ==
    /\ pc[t] = "collect"
    /\ \E items \in CollectItems(local[t].session) :
           local' = [local EXCEPT ![t] =
                        [session |-> local[t].session, pattern |-> local[t].pattern,
                         limit |-> local[t].limit, started |-> local[t].started,
                         items |-> items]]
    /\ pc' = [pc EXCEPT ![t] = "install"]
    /\ UNCHANGED <<storeVars, indexVars, searchDirty, last, expected, nops,
                   dbVars, ctxVars>>

\* A rebuild that would install the buffer and the offset table, and leave
\* the suffix array to a later critical section.
RebuildInstallBuffer(t) ==
    /\ pc[t] = "install"
    /\ LET built == BuiltIndex(local[t].items)
       IN  /\ searchContent' = built.searchContent
           /\ searchPositions' = built.searchPositions
           /\ searchDirty' = FALSE
    /\ pc' = [pc EXCEPT ![t] = "query"]
    /\ UNCHANGED <<storeVars, searchIndex, last, expected, nops, local, dbVars,
                   ctxVars>>

\* rebuildSearchIndexForSession, second lock: install what was built from
\* the collected items under the write lock and mark the index clean.
RebuildInstall(t) ==
    /\ pc[t] = "install"
    /\ LET built == BuiltIndex(local[t].items)
       IN  /\ searchContent' = built.searchContent
           /\ searchIndex' = built.searchIndex
           /\ searchPositions' = built.searchPositions
           /\ searchDirty' = FALSE
    /\ pc' = [pc EXCEPT ![t] = "query"]
    /\ UNCHANGED <<storeVars, last, expected, nops, local, dbVars, ctxVars>>

\* Search, last lock: query the installed index under the read lock and
\* return.
SearchReturn(t) ==
    /\ pc[t] = "query"
    /\ last' = CallFrom("search",
                        [session |-> local[t].session, pattern |-> local[t].pattern,
                         limit |-> local[t].limit],
                        SearchQuery(local[t].session, local[t].pattern,
                                    local[t].limit, searchIndex, searchContent,
                                    searchPositions),
                        local[t].started)
    /\ pc' = [pc EXCEPT ![t] = "idle"]
    /\ local' = [local EXCEPT ![t] = NoArg]
    /\ UNCHANGED <<storeVars, indexVars, searchDirty, expected, nops, dbVars, ctxVars>>

\* Thread t calls List(sessionID, opts): the whole call holds the read lock.
ConcList(t, sessionID, opts) ==
    /\ pc[t] = "idle"
    /\ nops < MaxConcOps
    /\ \E metas \in ListCollect(sessionID) :
           last' = Call("list", [session |-> sessionID, opts |-> opts],
                        Paginate(metas, opts))
    /\ nops' = nops + 1
    /\ UNCHANGED <<storeVars, indexVars, searchDirty, expected, threadVars,
                   dbVars, ctxVars>>

\* Thread t calls Delete(key): the critical section and the row, after
\* which the call returns; nothing changes when the key is not bound.
ConcDelete(t, key) ==
    /\ pc[t] = "idle"
    /\ nops < MaxConcOps
    /\ IF composeResultKey(key) \in DOMAIN keyToHash
       THEN /\ DeleteLocked(key)
            /\ results' = IF contentDB = "nil" THEN results
                           ELSE DeleteResult(key.SessionID, key.Key)
       ELSE UNCHANGED <<storeVars, indexVars, searchDirty, results>>
    /\ last' = Call("delete", [key |-> key], NoArg)
    /\ expected' = [expected EXCEPT ![key] = Absent]
    /\ nops' = nops + 1
    /\ UNCHANGED <<threadVars, contentDB, clock, ctxVars, closed>>

\* Thread t calls Get(key), first lock: under the read lock look the key
\* up; return nil when it is not found, else keep the hash and copies of
\* the metadata (with the requested key) and of the content.
GetRead(t, key) ==
    /\ pc[t] = "idle"
    /\ nops < MaxConcOps
    /\ IF Lookup(key).found
       THEN /\ local' = [local EXCEPT ![t] =
                           [key      |-> key,
                            hash     |-> keyToHash[composeResultKey(key)],
                            metadata |-> Lookup(key).Metadata,
                            content  |-> Lookup(key).Content,
                            started  |-> expected]]
            /\ pc' = [pc EXCEPT ![t] = "bump"]
            /\ UNCHANGED last
       ELSE /\ last' = Call("get", [key |-> key], NotFound)
            /\ UNCHANGED threadVars
    /\ nops' = nops + 1
    /\ UNCHANGED <<storeVars, indexVars, searchDirty, expected, dbVars, ctxVars>>

\* A Get that would read the metadata again by key under the write lock,
\* and return it with the content copied under the read lock.
GetBumpReturnReread(loc) ==
    [found    |-> TRUE,
     Metadata |-> IF Lookup(loc.key).found THEN Lookup(loc.key).Metadata
                  ELSE loc.metadata,
     Content  |-> loc.content]

\* The Result Get returns from the copies loc it took under the read lock:
\* the copied metadata, with the raised access count of the Result the
\* hash has now (if it has one), and the copied content.
GetBumpReturn(loc) ==
    [found    |-> TRUE,
     Metadata |-> IF loc.hash \in DOMAIN contentIndex
                  THEN [loc.metadata EXCEPT !.AccessCount =
                           contentIndex[loc.hash].Metadata.AccessCount + 1]
                  ELSE loc.metadata,
     Content  |-> loc.content]

\* Get, second lock and return: under the write lock raise the access count
\* of the Result the hash has now, then count the access in the row of the
\* key, and return.
GetBump(t) ==
    /\ pc[t] = "bump"
    /\ contentIndex' =
           IF local[t].hash \in DOMAIN contentIndex
           THEN [contentIndex EXCEPT ![local[t].hash].Metadata.AccessCount = @ + 1]
           ELSE contentIndex
    /\ results' = IF contentDB = "nil" THEN results
                   ELSE UpdateResultAccess(local[t].key.SessionID, local[t].key.Key)
    /\ last' = CallFrom("get", [key |-> local[t].key], GetBumpReturn(local[t]),
                        local[t].started)
    /\ pc' = [pc EXCEPT ![t] = "idle"]
    /\ local' = [local EXCEPT ![t] = NoArg]
    /\ UNCHANGED <<keyIndex, keyToHash, sessionIndex, indexVars, searchDirty,
                   expected, nops, contentDB, clock, ctxVars, closed>>

\* ------------------------------------ calls whose database call fails

\* In the record of a call whose call of the content database returned an
\* error, dbErr is that error and stderr what the call wrote to os.Stderr.

\* The errors a call of the content database returns.
BackingErrors == StoreResultErrors

\* Get(key) of a key that is found, on a store with a content database
\* whose UpdateResultAccess returns an error: the critical sections, the
\* row as it was, a line on os.Stderr, and the Result with a nil error.
GetFailed(key, err) ==
    /\ nops < MaxOps
    /\ contentDB # "nil"
    /\ Lookup(key).found
    /\ GetLocked(key)
    /\ last' = Call("get", [key |-> key], GetReturn(key))
                   @@ [dbErr  |-> err,
                       stderr |-> <<"storage: failed to update access tracking",
                                    err>>]
    /\ nops' = nops + 1
    /\ UNCHANGED <<keyIndex, keyToHash, sessionIndex, indexVars, searchDirty,
                   expected, threadVars, dbVars, ctxVars>>

\* Delete(key) of a bound key, on a store with a content database whose
\* DeleteResult returns an error: the critical section, the row as it was,
\* the error.
DeleteFailed(key, err) ==
    /\ nops < MaxOps
    /\ contentDB # "nil"
    /\ composeResultKey(key) \in DOMAIN keyToHash
    /\ DeleteLocked(key)
    /\ last' = Call("delete", [key |-> key],
                    [err |-> <<"failed to delete from SQLite", err>>])
                   @@ [dbErr |-> err]
    /\ nops' = nops + 1
    /\ UNCHANGED <<expected, threadVars, dbVars, ctxVars>>

\* DeleteSession(sessionID) of a session that has a list, on a store with a
\* content database whose DeleteSessionResults returns an error: the
\* critical section, the rows as they were, the error.
DeleteSessionFailed(sessionID, err) ==
    /\ nops < MaxOps
    /\ contentDB # "nil"
    /\ sessionID \in DOMAIN sessionIndex
    /\ DeleteSessionLocked(sessionID)
    /\ last' = Call("delete_session", [session |-> sessionID],
                    [err |-> <<"failed to delete session from SQLite", err>>])
                   @@ [dbErr |-> err]
    /\ nops' = nops + 1
    /\ UNCHANGED <<expected, threadVars, dbVars, ctxVars>>

\* NewResultStore(db) on the database of a store that was closed, whose
\* LoadAllResults returns an error: no store, the error.
NewResultStoreFailed(err) ==
    /\ closed
    /\ last' = Call("open", NoArg, [err |-> <<"failed to load from SQLite", err>>])
                   @@ [dbErr |-> err]
    /\ UNCHANGED <<storeVars, indexVars, searchDirty, expected, nops,
                   threadVars, dbVars, ctxVars>>

\* ------------------------------------------- calls, lock by lock

\* In the calls below a thread takes and releases the store's RWMutex in
\* steps of its own: pc[t] is "rlocked" or "locked" inside a critical
\* section, "between" between the two sections of Get, "load" and "db" while
\* a call of the content database is running, and local[t].mu is the lock
\* the thread holds.  What a critical section does to the store is done in
\* the step that releases the lock.

\* The lock thread t holds: "R", "W" or "none".
Holds(t) == IF "mu" \in DOMAIN local[t] THEN local[t].mu ELSE "none"

\* sync.RWMutex: Lock waits for every holder, RLock for a writer.
CanLock(t) == \A u \in Threads \ {t} : Holds(u) = "none"
CanRLock(t) == \A u \in Threads \ {t} : Holds(u) # "W"

\* Some thread is in NewResultStore: the store it builds is not returned
\* yet, so no other thread can call it.
Constructing ==
    \E u \in Threads : "op" \in DOMAIN local[u] /\ local[u].op = "open"

\* No other thread is inside a call.
Quiescent(t) == \A u \in Threads \ {t} : pc[u] = "idle"

\* Thread t starts a call: it takes the lock mu and keeps loc.
Enter(t, p, mu, loc) ==
    /\ pc[t] = "idle"
    /\ nops < MaxConcOps
    /\ ~Constructing
    /\ IF mu = "W" THEN CanLock(t) ELSE mu = "R" => CanRLock(t)
    /\ pc' = [pc EXCEPT ![t] = p]
    /\ local' = [local EXCEPT ![t] =
                    loc @@ [mu |-> mu, started |-> expected]]
    /\ nops' = nops + 1
    /\ UNCHANGED <<storeVars, indexVars, searchDirty, last, expected, dbVars,
                   ctxVars>>

\* Thread t goes on to p holding mu, with loc added to its locals.
Goto(t, p, mu, loc) ==
    /\ pc' = [pc EXCEPT ![t] = p]
    /\ local' = [local EXCEPT ![t] = loc @@ [local[t] EXCEPT !.mu = mu]]
    /\ UNCHANGED last

\* Thread t returns ret from its call, holding no lock.
Return(t, op, arg, ret) ==
    /\ last' = CallFrom(op, arg, ret, local[t].started)
    /\ pc' = [pc EXCEPT ![t] = "idle"]
    /\ local' = [local EXCEPT ![t] = NoArg]

\* Store: s.mu.Lock().
StoreLock(t, key, content, opts) ==
    /\ ~closed
    /\ Enter(t, "locked", "W",
             [op |-> "store", key |-> key, content |-> content, opts |-> opts])

\* A Store that would release the lock by defer, when it returns.
StoreUnlockDeferred(t) ==
    /\ pc[t] = "locked"
    /\ local[t].op = "store"
    /\ StoreLocked(local[t].key, local[t].content, local[t].opts)
    /\ Goto(t, "db", "W",
            [meta |-> StoreReturn(local[t].key, local[t].content, local[t].opts)])
    /\ UNCHANGED <<expected, nops, dbVars, ctxVars>>

\* Store: the critical section and s.mu.Unlock(); then, with a content
\* database, the call of StoreResult begins, else Store returns.
StoreUnlock(t) ==
    LET meta == StoreReturn(local[t].key, local[t].content, local[t].opts)
    IN  /\ pc[t] = "locked"
        /\ local[t].op = "store"
        /\ StoreLocked(local[t].key, local[t].content, local[t].opts)
        /\ IF contentDB # "nil"
           THEN /\ Goto(t, "db", "none", [meta |-> meta])
                /\ UNCHANGED expected
           ELSE /\ Return(t, "store", [key |-> local[t].key,
                                       content |-> local[t].content], meta)
                /\ expected' = [expected EXCEPT ![local[t].key] =
                                    Present(local[t].content)]
        /\ UNCHANGED <<nops, dbVars, ctxVars>>

\* Store: StoreResult writes the row of the metadata and Store returns.
StoreResultReturn(t) ==
    /\ pc[t] = "db"
    /\ local[t].op = "store"
    /\ results' = StoreResult(ContentResult(local[t].meta, local[t].content))
    /\ Return(t, "store", [key |-> local[t].key, content |-> local[t].content],
              local[t].meta)
    /\ expected' = [expected EXCEPT ![local[t].key] = Present(local[t].content)]
    /\ UNCHANGED <<storeVars, indexVars, searchDirty, nops, contentDB, clock,
                   closed, ctxVars>>

\* A Store of the one key with a content no other store has.
StoreDistinct(t, opts) ==
    /\ nops < Len(DistinctContents)
    /\ StoreLock(t, SameKey, DistinctContents[nops + 1], opts)

\* Get: s.mu.RLock().
GetRLock(t, key) ==
    /\ pc[t] = "idle"
    /\ Enter(t, "rlocked", "R", [op |-> "get", key |-> key])

\* Get: the lookup and s.mu.RUnlock(); nil is returned when the key is not
\* found, else the hash and copies of metadata and content are kept.
GetRUnlock(t) ==
    LET key == local[t].key
    IN  /\ pc[t] = "rlocked"
        /\ local[t].op = "get"
        /\ IF Lookup(key).found
           THEN Goto(t, "between", "none",
                     [hash     |-> keyToHash[composeResultKey(key)],
                      metadata |-> Lookup(key).Metadata,
                      content  |-> Lookup(key).Content])
           ELSE Return(t, "get", [key |-> key], NotFound)
        /\ UNCHANGED <<storeVars, indexVars, searchDirty, expected, nops, dbVars,
                       ctxVars>>

\* Get: s.mu.Lock().
GetLock(t) ==
    /\ pc[t] = "between"
    /\ CanLock(t)
    /\ Goto(t, "locked", "W", <<>>)
    /\ UNCHANGED <<storeVars, indexVars, searchDirty, expected, nops, dbVars,
                   ctxVars>>

\* A Get that would write back the access count it copied under the read
\* lock, raised by one.
GetUnlockFromCopy(t) ==
    LET count == local[t].metadata.AccessCount + 1
        ret   == [found    |-> TRUE,
                  Metadata |-> [local[t].metadata EXCEPT !.AccessCount = count],
                  Content  |-> local[t].content]
    IN  /\ pc[t] = "locked"
        /\ local[t].op = "get"
        /\ contentIndex' =
               IF local[t].hash \in DOMAIN contentIndex
               THEN [contentIndex EXCEPT
                        ![local[t].hash].Metadata.AccessCount = count]
               ELSE contentIndex
        /\ IF contentDB # "nil"
           THEN Goto(t, "db", "none", [ret |-> ret])
           ELSE Return(t, "get", [key |-> local[t].key], ret)
        /\ UNCHANGED <<keyIndex, keyToHash, sessionIndex, indexVars, searchDirty,
                       expected, nops, dbVars, ctxVars>>

\* Get: the access count of the Result the hash has now is raised, and
\* s.mu.Unlock(); then, with a content database, the call of
\* UpdateResultAccess begins, else Get returns.
GetUnlock(t) ==
    /\ pc[t] = "locked"
    /\ local[t].op = "get"
    /\ contentIndex' =
           IF local[t].hash \in DOMAIN contentIndex
           THEN [contentIndex EXCEPT ![local[t].hash].Metadata.AccessCount = @ + 1]
           ELSE contentIndex
    /\ IF contentDB # "nil"
       THEN Goto(t, "db", "none", [ret |-> GetBumpReturn(local[t])])
       ELSE Return(t, "get", [key |-> local[t].key], GetBumpReturn(local[t]))
    /\ UNCHANGED <<keyIndex, keyToHash, sessionIndex, indexVars, searchDirty,
                   expected, nops, dbVars, ctxVars>>

\* Get: UpdateResultAccess counts the access in the row of the key and Get
\* returns.
UpdateResultAccessReturn(t) ==
    /\ pc[t] = "db"
    /\ local[t].op = "get"
    /\ results' = UpdateResultAccess(local[t].key.SessionID, local[t].key.Key)
    /\ Return(t, "get", [key |-> local[t].key], local[t].ret)
    /\ UNCHANGED <<storeVars, indexVars, searchDirty, expected, nops, contentDB,
                   clock, closed, ctxVars>>

\* Delete: s.mu.Lock().
DeleteLock(t, key) ==
    /\ pc[t] = "idle"
    /\ Enter(t, "locked", "W", [op |-> "delete", key |-> key])

\* Delete: s.mu.Unlock() and return for a key that is not bound; else the
\* critical section and s.mu.Unlock(), and then, with a content database,
\* the call of DeleteResult begins, else Delete returns.
DeleteUnlock(t) ==
    LET key == local[t].key
    IN  /\ pc[t] = "locked"
        /\ local[t].op = "delete"
        /\ IF composeResultKey(key) \in DOMAIN keyToHash
           THEN DeleteLocked(key)
           ELSE UNCHANGED <<storeVars, indexVars, searchDirty>>
        /\ IF composeResultKey(key) \in DOMAIN keyToHash /\ contentDB # "nil"
           THEN /\ Goto(t, "db", "none", <<>>)
                /\ UNCHANGED expected
           ELSE /\ Return(t, "delete", [key |-> key], NoArg)
                /\ expected' = [expected EXCEPT ![key] = Absent]
        /\ UNCHANGED <<nops, dbVars, ctxVars>>

\* Delete: DeleteResult deletes the row of the key and Delete returns.
DeleteResultReturn(t) ==
    /\ pc[t] = "db"
    /\ local[t].op = "delete"
    /\ results' = DeleteResult(local[t].key.SessionID, local[t].key.Key)
    /\ Return(t, "delete", [key |-> local[t].key], NoArg)
    /\ expected' = [expected EXCEPT ![local[t].key] = Absent]
    /\ UNCHANGED <<storeVars, indexVars, searchDirty, nops, contentDB, clock,
                   closed, ctxVars>>

\* DeleteSession: s.mu.Lock().
DeleteSessionLock(t, sessionID) ==
    /\ pc[t] = "idle"
    /\ Enter(t, "locked", "W", [op |-> "delete_session", session |-> sessionID])

\* DeleteSession: s.mu.Unlock() and return for a session without a list;
\* else the critical section and s.mu.Unlock(), and then, with a content
\* database, the call of DeleteSessionResults begins, else DeleteSession
\* returns.
DeleteSessionUnlock(t) ==
    LET sessionID == local[t].session
        gone      == [k \in AllKeys |->
                         IF k.SessionID = sessionID THEN Absent ELSE expected[k]]
    IN  /\ pc[t] = "locked"
        /\ local[t].op = "delete_session"
        /\ IF sessionID \in DOMAIN sessionIndex
           THEN DeleteSessionLocked(sessionID)
           ELSE UNCHANGED <<storeVars, indexVars, searchDirty>>
        /\ IF sessionID \in DOMAIN sessionIndex /\ contentDB # "nil"
           THEN /\ Goto(t, "db", "none", <<>>)
                /\ UNCHANGED expected
           ELSE /\ Return(t, "delete_session", [session |-> sessionID], NoArg)
                /\ expected' = gone
        /\ UNCHANGED <<nops, dbVars, ctxVars>>

\* DeleteSession: DeleteSessionResults deletes the rows of the session and
\* DeleteSession returns.
DeleteSessionResultsReturn(t) ==
    /\ pc[t] = "db"
    /\ local[t].op = "delete_session"
    /\ results' = DeleteSessionResults(local[t].session)
    /\ Return(t, "delete_session", [session |-> local[t].session], NoArg)
    /\ expected' = [k \in AllKeys |->
                       IF k.SessionID = local[t].session THEN Absent
                       ELSE expected[k]]
    /\ UNCHANGED <<storeVars, indexVars, searchDirty, nops, contentDB, clock,
                   closed, ctxVars>>

\* Close: s.mu.Lock(), by the owner of the store once no call is running.
CloseLock(t) ==
    /\ Quiescent(t)
    /\ Enter(t, "locked", "W", [op |-> "close"])

\* Close: the maps, the search index and the database handle are dropped
\* and s.mu.Unlock(); then, if the handle was not nil, the call of the
\* database's Close begins, else Close returns.
CloseUnlock(t) ==
    /\ pc[t] = "locked"
    /\ local[t].op = "close"
    /\ contentIndex' = <<>>
    /\ keyToHash' = <<>>
    /\ sessionIndex' = <<>>
    /\ searchIndex' = NilIndex
    /\ searchContent' = <<>>
    /\ searchPositions' = <<>>
    /\ contentDB' = "nil"
    /\ closed' = TRUE
    /\ IF contentDB # "nil"
       THEN Goto(t, "db", "none", [ret |-> CloseReturn])
       ELSE Return(t, "close", NoArg, CloseReturn)
    /\ UNCHANGED <<keyIndex, searchDirty, expected, nops, results, clock,
                   ctxVars>>

\* Close: the database's Close returns, its rows stay, and Close returns.
CloseDBReturn(t) ==
    /\ pc[t] = "db"
    /\ local[t].op = "close"
    /\ Return(t, "close", NoArg, local[t].ret)
    /\ UNCHANGED <<storeVars, indexVars, searchDirty, expected, nops, dbVars,
                   ctxVars>>

\* NewResultStore on the database of a store that was closed:
\* loadFromContentStorage begins the call of LoadAllResults.
OpenLoad(t) ==
    /\ closed
    /\ Quiescent(t)
    /\ Enter(t, "load", "none", [op |-> "open"])

\* loadFromContentStorage: LoadAllResults returns the rows, then s.mu.Lock().
OpenLock(t) ==
    /\ pc[t] = "load"
    /\ CanLock(t)
    /\ \E rows \in LoadAllResults : Goto(t, "locked", "W", [rows |-> rows])
    /\ UNCHANGED <<storeVars, indexVars, searchDirty, expected, nops, dbVars,
                   ctxVars>>

\* loadFromContentStorage: the rows are put into the maps of the new store,
\* which is dirty and has no search index, and the deferred s.mu.Unlock();
\* NewResultStore returns the store.
OpenUnlock(t) ==
    LET st == LoadLoop(local[t].rows, 1,
                       [contentIndex |-> <<>>, keyIndex |-> <<>>,
                        keyToHash |-> <<>>, sessionIndex |-> <<>>])
    IN  /\ pc[t] = "locked"
        /\ local[t].op = "open"
        /\ contentIndex' = st.contentIndex
        /\ keyIndex' = st.keyIndex
        /\ keyToHash' = st.keyToHash
        /\ sessionIndex' = st.sessionIndex
        /\ searchIndex' = NilIndex
        /\ searchContent' = <<>>
        /\ searchPositions' = <<>>
        /\ searchDirty' = TRUE
        /\ contentDB' = "sqlite"
        /\ closed' = FALSE
        /\ Return(t, "open", NoArg, NoArg)
        /\ UNCHANGED <<expected, nops, results, clock, ctxVars>>

\* ------------------------------------------------------------ specification

Next ==
    \/ \E key \in ResultKeys, content \in Contents, opts \in StoreOptionsSet :
           Store(key, content, opts)
    \/ \E key \in ResultKeys : Get(key)
    \/ \E key \in ResultKeys : GetMetadata(key)
    \/ \E key \in ResultKeys : Delete(key)
    \/ \E sessionID \in Sessions : DeleteSession(sessionID)
    \/ \E sessionID \in Sessions, pattern \in Patterns, limit \in Limits :
           Search(sessionID, pattern, limit)
    \/ \E sessionID \in Sessions, prefix \in Prefixes :
           GetByPrefix(sessionID, prefix)
    \/ \E sessionID \in Sessions, opts \in QueryOptionsSet :
           List(sessionID, opts)

Spec == Init /\ [][Next]_vars

\* Threads calling Store and Search concurrently, every step of a call
\* being one critical section of the store's lock.
NextConc ==
    \E t \in Threads :
        \/ \E st \in ConcStores, opts \in StoreOptionsSet :
               ConcStore(t, st.key, st.content, opts)
        \/ \E sessionID \in ConcSessions, pattern \in Patterns :
               SearchBegin(t, sessionID, pattern, 0)
        \/ RebuildCollect(t)
        \/ RebuildInstall(t)
        \/ SearchReturn(t)

SpecConc == Init /\ [][NextConc]_vars

\* Threads calling Store, Delete and Search concurrently, every step of a
\* call being one critical section of the store's lock.
NextConcIndex ==
    \E t \in Threads :
        \/ \E st \in ConcStores, opts \in StoreOptionsSet :
               ConcStore(t, st.key, st.content, opts)
        \/ \E st \in ConcStores : ConcDelete(t, st.key)
        \/ \E sessionID \in ConcSessions, pattern \in Patterns :
               SearchBegin(t, sessionID, pattern, 0)
        \/ RebuildCollect(t)
        \/ RebuildInstall(t)
        \/ SearchReturn(t)

SpecConcIndex == Init /\ [][NextConcIndex]_vars

\* Threads calling Store, Delete and Get concurrently, every step of a call
\* being one critical section of the store's lock.
NextConcGet ==
    \E t \in Threads :
        \/ \E key \in ResultKeys, content \in Contents, opts \in StoreOptionsSet :
               ConcStore(t, key, content, opts)
        \/ \E key \in ResultKeys : ConcDelete(t, key)
        \/ \E key \in ResultKeys : GetRead(t, key)
        \/ GetBump(t)

SpecConcGet == Init /\ [][NextConcGet]_vars

\* Threads calling Store and List concurrently.
NextConcList ==
    \E t \in Threads :
        \/ \E key \in ResultKeys, content \in Contents, opts \in StoreOptionsSet :
               ConcStore(t, key, content, opts)
        \/ \E sessionID \in Sessions, opts \in QueryOptionsSet :
               ConcList(t, sessionID, opts)

SpecConcList == Init /\ [][NextConcList]_vars

\* The store called one call at a time with the calls that change what a
\* key holds, and Get.
NextStore ==
    \/ \E key \in ResultKeys, content \in Contents, opts \in StoreOptionsSet :
           Store(key, content, opts)
    \/ \E key \in ResultKeys : Get(key)
    \/ \E key \in ResultKeys : Delete(key)
    \/ \E sessionID \in Sessions : DeleteSession(sessionID)

SpecStore == Init /\ [][NextStore]_vars

\* The store called one call at a time with Store, Delete and GetLines on
\* one key.
NextLines ==
    \/ \E key \in LineKeys, content \in Contents, opts \in StoreOptionsSet :
           Store(key, content, opts)
    \/ \E key \in LineKeys : Delete(key)
    \/ \E key \in LineKeys, lineRange \in LineRanges : GetLines(key, lineRange)

SpecLines == Init /\ [][NextLines]_vars

\* A store with a content database, called one call at a time, closed, and
\* opened again on the same database.
NextDB ==
    \/ \E key \in ResultKeys, content \in Contents, opts \in StoreOptionsSet :
           Store(key, content, opts)
    \/ \E key \in ResultKeys : Get(key)
    \/ \E key \in ResultKeys : Delete(key)
    \/ \E sessionID \in Sessions : DeleteSession(sessionID)
    \/ Close
    \/ NewResultStore
    \/ Tick

SpecDB == InitDB /\ [][NextDB]_vars

\* A store with a content database, called one call at a time with the
\* calls that read or change an access count, and Delete.
NextCount ==
    \/ \E key \in ResultKeys, content \in Contents, opts \in StoreOptionsSet :
           Store(key, content, opts)
    \/ \E key \in ResultKeys : Get(key)
    \/ \E key \in ResultKeys : GetMetadata(key)
    \/ \E key \in ResultKeys : Delete(key)

SpecCount == InitDB /\ [][NextCount]_vars

\* A store with a content database whose StoreResult may fail, called one
\* call at a time.
NextFail ==
    \/ \E key \in FailKeys, content \in Contents, opts \in StoreOptionsSet :
           Store(key, content, opts)
    \/ \E key \in FailKeys, content \in Contents, opts \in StoreOptionsSet,
          err \in StoreResultErrors :
           StoreFailed(key, content, opts, err)
    \/ \E key \in FailKeys : Get(key)
    \/ \E key \in FailKeys : Delete(key)

SpecFail == InitDB /\ [][NextFail]_vars

\* A store with a content database, called one call at a time and closed
\* any number of times.
NextClose ==
    \/ \E key \in FailKeys, content \in Contents, opts \in StoreOptionsSet :
           Store(key, content, opts)
    \/ \E key \in FailKeys : Get(key)
    \/ \E sessionID \in ConcSessions, pattern \in Patterns :
           Search(sessionID, pattern, 0)
    \/ Close

SpecClose == InitDB /\ [][NextClose]_vars

\* A StoredFileContext to which keys are added.
NextFiles == \E key \in AddKeys : Add(key)

SpecFiles == Init /\ [][NextFiles]_vars

\* A store with a content database and a StoredFileContext, called one
\* call at a time by the retrieval tools of a session, and by what stores
\* in that session and adds to the context.
NextTools ==
    \/ \E key \in ToolStoreKeys, content \in Contents, opts \in StoreOptionsSet :
           Store(key, content, opts)
    \/ \E key \in ToolAddKeys : Add(key)
    \/ \E pattern \in ToolPatterns, limitArg \in ToolLimits :
           SearchStoredExecute(pattern, limitArg)
    \/ \E keyArg \in ToolKeyArgs, lineRange \in ToolRanges :
           GetLinesExecute(keyArg, lineRange)
    \/ \E prefix \in Prefixes : ListStoredExecute(prefix)

SpecTools == InitDB /\ [][NextTools]_vars

\* The store called one call at a time with Store of two keys of a session
\* and Search of the session with every limit.
NextLimit ==
    \/ \E st \in ConcStores, opts \in StoreOptionsSet :
           Store(st.key, st.content, opts)
    \/ \E sessionID \in ConcSessions, pattern \in Patterns, limit \in SearchLimits :
           Search(sessionID, pattern, limit)

SpecLimit == Init /\ [][NextLimit]_vars

\* A store with a content database on which two threads store and delete
\* one key, lock by lock, every store with a content of its own.
NextDisk ==
    \E t \in Threads :
        \/ \E opts \in StoreOptionsSet : StoreDistinct(t, opts)
        \/ StoreUnlock(t)
        \/ StoreResultReturn(t)
        \/ DeleteLock(t, SameKey)
        \/ DeleteUnlock(t)
        \/ DeleteResultReturn(t)

SpecDisk == InitDB /\ [][NextDisk]_vars

\* A store without content database on which two threads store, get and
\* delete results, lock by lock.
NextGets ==
    \E t \in Threads :
        \/ \E st \in ConcStores, opts \in StoreOptionsSet :
               StoreLock(t, st.key, st.content, opts)
        \/ StoreUnlock(t)
        \/ \E st \in ConcStores : GetRLock(t, st.key)
        \/ GetRUnlock(t)
        \/ GetLock(t)
        \/ GetUnlock(t)
        \/ \E st \in ConcStores : DeleteLock(t, st.key)
        \/ DeleteUnlock(t)

SpecGets == Init /\ [][NextGets]_vars

\* A store that is listed page by page, one call at a time.
NextPages ==
    \/ \E st \in ConcStores, opts \in StoreOptionsSet :
           Store(st.key, st.content, opts)
    \/ \E st \in ConcStores : Delete(st.key)
    \/ \E sessionID \in ConcSessions, opts \in PageOptions : List(sessionID, opts)

SpecPages == Init /\ [][NextPages]_vars

\* Searches of suffix arrays.
NextSuffixArray ==
    \E text \in SearchTexts, pattern \in SearchPatterns : SearchText(text, pattern)

SpecSuffixArray == Init /\ [][NextSuffixArray]_vars

\* Summaries of contents under caps.
NextSummary ==
    \E content \in SummaryContents, opts \in SummaryOptions :
        GenerateSummary(content, opts)

SpecSummary == Init /\ [][NextSummary]_vars

\* A store with a content database whose calls may fail, one call at a
\* time; the store is closed and opened again.
NextErrors ==
    \/ \E key \in FailKeys, content \in Contents, opts \in StoreOptionsSet :
           Store(key, content, opts)
    \/ \E key \in FailKeys, content \in Contents, opts \in StoreOptionsSet,
          err \in BackingErrors :
           StoreFailed(key, content, opts, err)
    \/ \E key \in FailKeys : Get(key)
    \/ \E key \in FailKeys, err \in BackingErrors : GetFailed(key, err)
    \/ \E key \in FailKeys : Delete(key)
    \/ \E key \in FailKeys, err \in BackingErrors : DeleteFailed(key, err)
    \/ \E sessionID \in ConcSessions : DeleteSession(sessionID)
    \/ \E sessionID \in ConcSessions, err \in BackingErrors :
           DeleteSessionFailed(sessionID, err)
    \/ Close
    \/ NewResultStore
    \/ \E err \in BackingErrors : NewResultStoreFailed(err)

SpecErrors == InitDB /\ [][NextErrors]_vars

\* The calls of a store with a content database, lock by lock: two threads
\* store, get and delete results, delete the session, and close and reopen
\* the store.
NextLocks ==
    \/ \E t \in Threads :
           \/ \E st \in ConcStores, opts \in StoreOptionsSet :
                  StoreLock(t, st.key, st.content, opts)
           \/ StoreUnlock(t)
           \/ StoreResultReturn(t)
           \/ \E st \in ConcStores : GetRLock(t, st.key)
           \/ GetRUnlock(t)
           \/ GetLock(t)
           \/ GetUnlock(t)
           \/ UpdateResultAccessReturn(t)
           \/ \E st \in ConcStores : DeleteLock(t, st.key)
           \/ DeleteUnlock(t)
           \/ DeleteResultReturn(t)
           \/ \E sessionID \in ConcSessions : DeleteSessionLock(t, sessionID)
           \/ DeleteSessionUnlock(t)
           \/ DeleteSessionResultsReturn(t)
           \/ CloseLock(t)
           \/ CloseUnlock(t)
           \/ CloseDBReturn(t)
           \/ OpenLoad(t)
           \/ OpenLock(t)
           \/ OpenUnlock(t)

SpecLocks == InitDB /\ [][NextLocks]_vars

\* The store called with keys that hold ':', one call at a time.
NextAlias ==
    \/ \E key \in AliasKeys, content \in Contents, opts \in StoreOptionsSet :
           Store(key, content, opts)
    \/ \E key \in AliasKeys : Get(key)
    \/ \E key \in AliasKeys : Delete(key)
    \/ \E sessionID \in AliasSessions, prefix \in Prefixes :
           GetByPrefix(sessionID, prefix)

SpecAlias == Init /\ [][NextAlias]_vars

\* ------------------------------------------------------------------ claims

\* The pattern occurs in the content at 0-based offset i.
OccursAt(content, pattern, i) ==
    /\ i >= 0
    /\ i + Len(pattern) <= Len(content)
    /\ Slice(content, i, i + Len(pattern)) = pattern

\* The offsets at which the pattern occurs in the content.
Occurrences(content, pattern) ==
    {i \in 0..(Len(content) - 1) : OccursAt(content, pattern, i)}

\* The 1-based line of the content that holds offset i.
LineOf(content, i) == 1 + Count(Slice(content, 0, i), NL)

\* The line of the content that holds offset i, without its newline.
ContainingLine(content, i) == Split(content)[LineOf(content, i)]

\* The elements of a sequence.
Range(seq) == {seq[i] : i \in 1..Len(seq)}

\* The keys of ResultKeys that the calls so far stored and did not delete.
LiveKeys == {k \in ResultKeys : expected[k].present}

\* No two keys stored so far hold the same content.
NoSharedContent ==
    \A k1, k2 \in LiveKeys : k1 # k2 => expected[k1].content # expected[k2].content

\* C1: round trip.  A key whose last call was a store of some content (no
\* later store, delete or delete_session of it) is found by get with
\* exactly that content, and its metadata reports the content's length as
\* byte_size and 0 lines for the empty content, else newlines + 1.
C1_RoundTrip ==
    \A k \in ResultKeys :
        expected[k].present =>
            LET c == expected[k].content
            IN  /\ GetReturn(k).found
                /\ GetReturn(k).Content = c
                /\ Lookup(k).found
                /\ Lookup(k).Metadata.ByteSize = Len(c)
                /\ Lookup(k).Metadata.LineCount =
                       (IF c = <<>> THEN 0 ELSE 1 + Count(c, NL))

\* C2: deleting one key of shared content leaves the other key intact.
\* After delete(k1), get(k1) is absent and every other key k2 that held the
\* content of k1 still returns it; the Result of k1's hash is gone only if
\* no composite key maps to that hash any more; and a search of k2's
\* session run next, for a pattern occurring in the content, returns a match
\* keyed k2.
C2_DeleteKeepsSharedContent ==
    /\ last.op = "delete" /\ last.pre[last.arg.key].found =>
           LET k1 == last.arg.key
               c  == last.pre[k1].Content
           IN  /\ ~Lookup(k1).found
               /\ \A k2 \in ResultKeys \ {k1} :
                      last.pre[k2].found /\ last.pre[k2].Content = c =>
                          Lookup(k2).found /\ Lookup(k2).Content = c
               /\ computeContentHash(c) \notin DOMAIN contentIndex =>
                      \A ck \in DOMAIN keyToHash :
                          keyToHash[ck] # computeContentHash(c)
    /\ last.op = "search" /\ last.after.op = "delete" /\ last.arg.limit = 0 =>
           LET k1 == last.after.arg.key
               before == last.after.pre
           IN  \A k2 \in ResultKeys \ {k1} :
                   /\ before[k1].found /\ before[k2].found
                   /\ before[k2].Content = before[k1].Content
                   /\ k2.SessionID = last.arg.session
                   /\ Occurrences(before[k2].Content, last.arg.pattern) # {}
                   => \E m \in Range(last.ret) : m.Key = k2

\* C3: freshness after mutation.  A search of the session of k with limit 0,
\* run right after store(k, C) for a pattern that occurs in C, returns a
\* match whose key is k.
C3_FreshAfterStore ==
    /\ last.op = "search" /\ last.after.op = "store" /\ last.arg.limit = 0
    /\ last.after.arg.key.SessionID = last.arg.session
    /\ Occurrences(last.after.arg.content, last.arg.pattern) # {}
    => \E m \in Range(last.ret) : m.Key = last.after.arg.key

\* C5: search soundness.  For every match a search returns, get of the
\* match's key returns at that moment a content that holds the pattern at
\* the match's position.
C5_SearchSound ==
    last.op = "search" =>
        \A m \in Range(last.ret) :
            /\ Lookup(m.Key).found
            /\ OccursAt(Lookup(m.Key).Content, last.arg.pattern, m.Position)

\* C6: search results reference live content.  No match of a search names a
\* key that was deleted, and the matched text is in some content that a
\* composite key currently maps to.
C6_SearchLive ==
    last.op = "search" =>
        \A m \in Range(last.ret) :
            /\ expected[m.Key].present
            /\ \E ck \in DOMAIN keyToHash :
                   /\ keyToHash[ck] \in DOMAIN contentIndex
                   /\ OccursAt(contentIndex[keyToHash[ck]].Content,
                               last.arg.pattern, m.Position)

\* C7: search completeness.  For every key of the searched session that get
\* finds, a search with limit 0 returns a match at every offset at which
\* the pattern occurs in the key's content.
C7_SearchComplete ==
    last.op = "search" /\ last.arg.limit = 0 =>
        \A k \in ResultKeys :
            k.SessionID = last.arg.session /\ Lookup(k).found =>
                \A i \in Occurrences(Lookup(k).Content, last.arg.pattern) :
                    \E m \in Range(last.ret) : m.Position = i

\* C8: the index state is per session.  When two sessions hold content (no
\* content shared between keys), a search of one session run right after a
\* search of the other, with no mutation in between, returns a match at
\* every offset at which the pattern occurs in the contents of its session.
C8_IndexPerSession ==
    /\ last.op = "search" /\ last.after.op = "search" /\ last.arg.limit = 0
    /\ last.after.arg.session # last.arg.session
    /\ NoSharedContent
    /\ \A k \in LiveKeys : Lookup(k).found /\ Lookup(k).Content = expected[k].content
    /\ \A s \in {last.arg.session, last.after.arg.session} :
           \E k \in LiveKeys : k.SessionID = s
    => \A k \in LiveKeys :
           k.SessionID = last.arg.session =>
               \A i \in Occurrences(expected[k].content, last.arg.pattern) :
                   \E m \in Range(last.ret) : m.Key = k /\ m.Position = i

\* C9: line numbers.  For every match of a search whose key holds the
\* pattern at the match's position, the match's line is the 1-based line of
\* that key's own content that holds the position.
C9_LineOfOwnContent ==
    last.op = "search" =>
        \A m \in Range(last.ret) :
            /\ Lookup(m.Key).found
            /\ OccursAt(Lookup(m.Key).Content, last.arg.pattern, m.Position)
            => m.Line = LineOf(Lookup(m.Key).Content, m.Position)

\* C10: context.  For every match of a search whose key holds the pattern at
\* the match's position, the match's context is the line of that key's own
\* content that holds the position; it holds no sentinel.
C10_ContextIsLine ==
    last.op = "search" =>
        \A m \in Range(last.ret) :
            /\ Lookup(m.Key).found
            /\ OccursAt(Lookup(m.Key).Content, last.arg.pattern, m.Position)
            => /\ m.Context = ContainingLine(Lookup(m.Key).Content, m.Position)
               /\ \A i \in 1..Len(m.Context) : m.Context[i] # NUL

\* C4: ordering under concurrency.  A search with limit 0 returns a match
\* at every offset at which its pattern occurs in a content that a store to
\* a key of its session had stored when the search started, whatever
\* rebuild another thread's search was running meanwhile.
C4_SearchSeesReturnedStores ==
    last.op = "search" /\ last.arg.limit = 0 =>
        \A k \in ResultKeys :
            /\ k.SessionID = last.arg.session
            /\ last.started[k].present
            /\ expected[k] = last.started[k]
            => \A i \in Occurrences(last.started[k].content, last.arg.pattern) :
                   \E m \in Range(last.ret) : m.Key = k /\ m.Position = i

\* The ResultKeys of a session that get finds and whose key begins with the
\* prefix.
PrefixKeys(sessionID, prefix) ==
    {k \in AllKeys : /\ k.SessionID = sessionID
                     /\ HasPrefix(k.Key, prefix)
                     /\ Lookup(k).found}

\* C11: prefix listing is exact.  get_by_prefix(s, P) returns one metadata
\* entry, with the user's key, for every ResultKey of session s that get
\* finds and whose key begins with P, and no other entry.
C11_PrefixExact ==
    last.op = "get_by_prefix" =>
        LET want == PrefixKeys(last.arg.session, last.arg.prefix)
        IN  /\ Len(last.ret) = Cardinality(want)
            /\ \A k \in want :
                   \E i \in 1..Len(last.ret) : last.ret[i] = Lookup(k).Metadata
            /\ \A i \in 1..Len(last.ret) : last.ret[i].Key \in want

\* The ResultKeys of a session that the calls so far stored and did not
\* delete.
StoredKeys(sessionID) ==
    {k \in AllKeys : expected[k].present /\ k.SessionID = sessionID}

\* C12: list enumerates the session exactly.  list(session, {}) returns one
\* metadata entry for every ResultKey of the session that is stored (also
\* when its content is shared with another key, and when it was
\* overwritten), and no entry for any other key.
C12_ListExact ==
    last.op = "list" /\ last.arg.opts = [Limit |-> 0, Offset |-> 0] =>
        LET want == StoredKeys(last.arg.session)
        IN  /\ Len(last.ret) = Cardinality(want)
            /\ \A k \in want : \E i \in 1..Len(last.ret) : last.ret[i].Key = k
            /\ \A i \in 1..Len(last.ret) : last.ret[i].Key \in want

\* C13: concurrent stores to distinct keys are all listed.  When the calls
\* so far were N stores to N distinct keys of one session, by any threads
\* in any order, and all have returned, a full list of that session has N
\* entries.
C13_ListAfterConcurrentStores ==
    /\ last.op = "list" /\ last.arg.opts = [Limit |-> 0, Offset |-> 0]
    /\ \A t \in Threads : pc[t] = "idle"
    /\ Cardinality(StoredKeys(last.arg.session)) = nops - 1
    => Len(last.ret) = nops - 1

\* C14: a concurrent get returns a consistent Result.  Every Result a get
\* returns, whatever stores, deletes and gets other threads ran between its
\* two locks, has a metadata byte_size equal to the length of the content
\* returned with it.
C14_GetByteSize ==
    last.op = "get" /\ last.ret.found =>
        last.ret.Metadata.ByteSize = Len(last.ret.Content)

\* A get has returned a Result for a key that another thread has meanwhile
\* stored other content of another length under.
C14_Witness ==
    /\ last.op = "get" /\ last.ret.found
    /\ Lookup(last.arg.key).found
    /\ Len(Lookup(last.arg.key).Content) # Len(last.ret.Content)

\* C15: durability.  After close and reopen on the same database, get finds
\* the keys it found just before the close and no other, each with the same
\* content, content_hash, line_count and byte_size.
C15_Durable ==
    last.op = "open" /\ last.after.op = "close" =>
        \A k \in ResultKeys :
            LET before == last.after.pre[k]
                now    == Lookup(k)
            IN  /\ now.found = before.found
                /\ before.found /\ now.found =>
                       /\ now.Content = before.Content
                       /\ now.Metadata.ContentHash = before.Metadata.ContentHash
                       /\ now.Metadata.LineCount = before.Metadata.LineCount
                       /\ now.Metadata.ByteSize = before.Metadata.ByteSize

\* C16: access counters do not go backwards over a restart.  After close
\* and reopen, get_metadata of every key that was stored just before the
\* close reports an access_count at least what it reported then.
C16_AccessCountKept ==
    last.op = "open" /\ last.after.op = "close" =>
        \A k \in ResultKeys :
            last.after.pre[k].found =>
                /\ Lookup(k).found
                /\ Lookup(k).Metadata.AccessCount >=
                       last.after.pre[k].Metadata.AccessCount

\* C17: storing known content reuses its Result.  A store of content that
\* get finds under another key returns metadata (no error) and adds no
\* Result: the existing Result stays, its access count raised by exactly
\* one, and the returned metadata carries that Result's content_hash, the
\* raised count and the key the caller supplied.
C17_StoreReusesResult ==
    [][(/\ last'.op = "store" /\ nops' = nops + 1
        /\ \E k2 \in ResultKeys \ {last'.arg.key} :
               Lookup(k2).found /\ Lookup(k2).Content = last'.arg.content)
       => LET hash == computeContentHash(last'.arg.content)
          IN  /\ DOMAIN contentIndex' = DOMAIN contentIndex
              /\ contentIndex'[hash] =
                     [contentIndex[hash] EXCEPT !.Metadata.AccessCount = @ + 1]
              /\ last'.ret.ContentHash = contentIndex[hash].Metadata.ContentHash
              /\ last'.ret.AccessCount = contentIndex[hash].Metadata.AccessCount + 1
              /\ last'.ret.Key = last'.arg.key]_vars

\* A store has returned for content that get found under another key when
\* it was called.
C17_Witness ==
    /\ last.op = "store"
    /\ \E k2 \in ResultKeys \ {last.arg.key} :
           last.pre[k2].found /\ last.pre[k2].Content = last.arg.content

\* C18: delete_session leaves other sessions alone.  After delete_session(s)
\* every ResultKey of another session that get found before the call is
\* still found, with the same content (also when a key of s holds the same
\* content), and the list of every other session is what it was.
C18_DeleteSessionFrame ==
    [][(last'.op = "delete_session" /\ nops' = nops + 1)
       => /\ \A k \in ResultKeys :
                 k.SessionID # last'.arg.session /\ Lookup(k).found =>
                     /\ Lookup(k)'.found
                     /\ Lookup(k)'.Content = Lookup(k).Content
          /\ \A s2 \in Sessions \ {last'.arg.session} :
                 ListCollect(s2)' = ListCollect(s2)]_vars

\* C19: a deleted session is empty.  Right after delete_session(s), whatever
\* stores and overwrites came before, list(s, {}) and get_by_prefix(s, "")
\* return nothing, get of a key of s is absent, and a search of s returns
\* no match.
C19_SessionEmptyAfterDelete ==
    last.after.op = "delete_session" =>
        LET s == last.after.arg.session
        IN  /\ last.op = "list" /\ last.arg.session = s => last.ret = <<>>
            /\ last.op = "get_by_prefix" /\ last.arg.session = s
                   /\ last.arg.prefix = <<>> => last.ret = <<>>
            /\ last.op = "get" /\ last.arg.key.SessionID = s => ~last.ret.found
            /\ last.op = "search" /\ last.arg.session = s => last.ret = <<>>

\* The larger and the smaller of two integers.
Max(a, b) == IF a >= b THEN a ELSE b
Min(a, b) == IF a <= b THEN a ELSE b

\* C20: get_lines.  get_lines(key, [a, b]) on a key get finds, whose
\* metadata counts n lines, returns the lines numbered max(1, a) to
\* min(n, b) joined with newline (so lines a..b when 1 <= a <= b <= n);
\* when no line is in that interval, and when the key is absent, it returns
\* the empty string.
C20_GetLines ==
    last.op = "get_lines" =>
        LET before == last.pre[last.arg.key]
            a      == last.arg.range.Start
            b      == last.arg.range.End
        IN  IF ~before.found THEN last.ret = <<>>
            ELSE LET lines == Split(before.Content)
                     lo    == Max(1, a)
                     hi    == Min(before.Metadata.LineCount, b)
                 IN  last.ret = IF lo > hi THEN <<>>
                                ELSE Join(SubSeq(lines, lo, hi))

\* get_lines has returned the second line alone of a content of two lines.
C20_Witness ==
    /\ last.op = "get_lines"
    /\ last.pre[last.arg.key].found
    /\ last.pre[last.arg.key].Metadata.LineCount = 2
    /\ last.arg.range = [Start |-> 2, End |-> 2]
    /\ last.ret = <<"a">>

\* C21: absent keys.  A call of get, get_metadata, get_lines or delete on a
\* key that was never stored, or was deleted since, changes no index, not
\* the dirty flag and no row; get and get_metadata return absent, get_lines
\* the empty string, delete success.
C21_AbsentKey ==
    [][(/\ nops' = nops + 1
        /\ last'.op \in {"get", "get_metadata", "get_lines", "delete"}
        /\ expected[last'.arg.key] = Absent)
       => /\ UNCHANGED <<storeVars, indexVars, searchDirty, results>>
          /\ last'.op \in {"get", "get_metadata"} => last'.ret = NotFound
          /\ last'.op = "get_lines" => last'.ret = <<>>
          /\ last'.op = "delete" => last'.ret = NoArg]_vars

\* C22: access counters.  get_metadata changes no Result and no row; a get
\* of a key that has a Result raises the access_count of that Result by
\* exactly one, leaves every other Result as it was, and returns the raised
\* count.
C22_AccessCounts ==
    [][nops' = nops + 1 =>
       /\ last'.op = "get_metadata" => UNCHANGED <<contentIndex, results>>
       /\ (last'.op = "get" /\ Lookup(last'.arg.key).found) =>
              LET hash == keyToHash[composeResultKey(last'.arg.key)]
                  n    == contentIndex[hash].Metadata.AccessCount
              IN  /\ contentIndex' =
                         [contentIndex EXCEPT ![hash].Metadata.AccessCount = n + 1]
                  /\ last'.ret.found
                  /\ last'.ret.Metadata.AccessCount = n + 1]_vars

\* A get has returned the count 3 of a Result that has a row, and a
\* get_metadata of a key that has a Result has returned before it.
C22_Witness ==
    /\ last.op = "get"
    /\ last.ret.found
    /\ last.ret.Metadata.AccessCount = 3
    /\ last.arg.key \in DOMAIN results
    /\ last.after.op = "get_metadata"
    /\ last.after.pre[last.after.arg.key].found

\* The last call was a store, and StoreResult failed in it.
StoreHasFailed == last.op = "store" /\ "err" \in DOMAIN last.ret

\* C23: store when the row cannot be persisted.  A store whose StoreResult
\* fails leaves the key bound to the new content in memory; a get of the key
\* right after it returns that content; and a store of the same key and
\* content right after it, with the database working, returns the metadata
\* of the key and leaves the row of the key with that content.
C23_StoreFailure ==
    [][nops' = nops + 1 =>
       /\ (StoreHasFailed =>
              /\ Lookup(last.arg.key).found
              /\ Lookup(last.arg.key).Content = last.arg.content)'
       /\ (StoreHasFailed /\ last'.op = "get" /\ last'.arg.key = last.arg.key) =>
              /\ last'.ret.found
              /\ last'.ret.Content = last.arg.content
       /\ (StoreHasFailed /\ last'.op = "store" /\ last'.arg = last.arg
              /\ ~StoreHasFailed') =>
              /\ last'.ret.Key = last.arg.key
              /\ last'.ret.ByteSize = Len(last.arg.content)
              /\ last.arg.key \in DOMAIN results'
              /\ results'[last.arg.key].Content = last.arg.content
              /\ (/\ Lookup(last.arg.key).found
                  /\ Lookup(last.arg.key).Content = last.arg.content)']_vars

\* A store of a key has succeeded right after a store of the same key and
\* content failed, the key holding another content before them.
C23_Witness ==
    /\ last.op = "store"
    /\ ~StoreHasFailed
    /\ last.after.op = "store"
    /\ last.after.arg = last.arg
    /\ last.after.pre[last.arg.key].found
    /\ last.after.pre[last.arg.key].Content # last.arg.content
    /\ last.pre[last.arg.key].found
    /\ results[last.arg.key].Content = last.arg.content
    /\ results[last.arg.key].AccessCount = 2

\* C24: cancelled store.  When a store has returned the error of a
\* cancelled StoreResult, the key is bound to the content in memory exactly
\* when the row of the key holds it.
C24_CancelledStoreAllOrNothing ==
    (StoreHasFailed /\ last.ret = StoreError("canceled")) =>
        LET key == last.arg.key
        IN  (Lookup(key).found /\ Lookup(key).Content = last.arg.content)
            <=> (key \in DOMAIN results /\ results[key].Content = last.arg.content)

\* C25: close twice.  A Close that follows a Close returns no error, does
\* not close the database, and changes neither the store nor the rows.
C25_CloseIdempotent ==
    [][(last.op = "close" /\ last'.op = "close") =>
          /\ last'.ret = [err |-> "nil", closesDB |-> FALSE]
          /\ UNCHANGED <<storeVars, indexVars, searchDirty, dbVars>>]_vars

\* A Close has followed the Close of a store that had a Result, a row and a
\* clean search index, and that closed the database.
C25_Witness ==
    /\ last.op = "close"
    /\ last.after.op = "close"
    /\ last.after.pre # last.pre
    /\ ~last.ret.closesDB
    /\ ~searchDirty
    /\ keyIndex # <<>>
    /\ results # <<>>

\* The keys of list are the keys of some of the Add calls of hist below the
\* bound-th, in the order of these calls from the latest on.
RECURSIVE FromNewest(_, _, _, _)
FromNewest(list, i, hist, bound) ==
    IF i > Len(list) THEN TRUE
    ELSE LET calls == {k \in 1..(bound - 1) : hist[k] = list[i]}
         IN  /\ calls # {}
             /\ FromNewest(list, i + 1, hist, CHOOSE k \in calls :
                                                  \A l \in calls : l <= k)

\* The last n Add calls had pairwise different keys.
LastDistinct(n) ==
    /\ Len(added) >= n
    /\ \A i, j \in (Len(added) - n + 1)..Len(added) :
           i # j => added[i] # added[j]

\* C26: bounded, most recent first.  List() has at most 10 keys; Last() is
\* the key of the latest Add, or "" when there was none; the keys of List()
\* are keys of Add calls in the order of these calls from the latest on; and
\* when the last 11 Add calls had 11 different keys, List() holds the keys
\* of the last 10 and not the key of the one before them.
C26_BoundedNewestFirst ==
    /\ Len(FilesList) <= 10
    /\ Last = IF Len(added) = 0 THEN <<>> ELSE added[Len(added)]
    /\ FromNewest(FilesList, 1, added, Len(added) + 1)
    /\ LastDistinct(11) =>
           /\ Len(FilesList) = 10
           /\ \A i \in 1..10 : FilesList[i] = added[Len(added) - i + 1]
           /\ \A i \in 1..10 : FilesList[i] # added[Len(added) - 10]

\* An eleventh different key has been added, after a key was added twice.
C26_Witness ==
    /\ LastDistinct(11)
    /\ Len(added) > 11
    /\ \E i, j \in 1..Len(added) : i # j /\ added[i] = added[j]

\* C27: no key twice.  List() holds no key at two positions.
C27_NoDuplicates ==
    \A i, j \in 1..Len(FilesList) : i # j => FilesList[i] # FilesList[j]

\* C28: the retrieval tools.  An execution of search_stored, get_lines or
\* list_stored changes no index, no Result, not the search index, not the
\* dirty flag, no row and not the StoredFileContext.
C28_ToolsReadOnly ==
    [][(/\ nops' = nops + 1
        /\ last'.op \in {"search_stored", "get_lines_tool", "list_stored"})
       => UNCHANGED <<storeVars, indexVars, searchDirty, results, files>>]_vars

\* The matches of the pattern in the installed buffer: one for every offset
\* at which the pattern occurs inside an entry of the session, by ascending
\* offset.
AllMatches(sessionID, pattern) ==
    LET offs == SortInts({i \in Occurrences(searchContent, pattern) :
                             \E k \in 1..Len(searchPositions) :
                                 /\ searchPositions[k].key.SessionID = sessionID
                                 /\ i >= searchPositions[k].start
                                 /\ i < searchPositions[k].end})
    IN  [k \in 1..Len(offs) |->
            MatchAt(searchContent,
                    OwnerOf(searchPositions, sessionID, offs[k])[1], offs[k])]

\* The first limit entries of all when limit is positive, else all.
Limited(all, limit) ==
    IF limit > 0 THEN SubSeq(all, 1, Min(limit, Len(all))) ELSE all

\* C29: search and limit.  A search returns, of the matches of the pattern
\* in the buffer by ascending offset, the first min(limit, total) when limit
\* is positive and all otherwise; and when a search without limit follows a
\* search of the same session and pattern, the earlier one returned the
\* first min(limit, total) of what the later one returns (all of it when its
\* limit was not positive).
C29_SearchLimit ==
    [][/\ (last.op = "search" =>
              last.ret = Limited(AllMatches(last.arg.session, last.arg.pattern),
                                 last.arg.limit))'
       /\ (/\ last.op = "search"
           /\ last'.op = "search"
           /\ nops' = nops + 1
           /\ last'.arg.session = last.arg.session
           /\ last'.arg.pattern = last.arg.pattern
           /\ last'.arg.limit <= 0)
          => last.ret = Limited(last'.ret, last.arg.limit)]_vars

\* A search without limit has returned two matches right after a search of
\* the same session and pattern with limit 1.
C29_Witness ==
    /\ last.op = "search"
    /\ last.arg.limit = 0
    /\ Len(last.ret) = 2
    /\ last.after.op = "search"
    /\ last.after.arg = [last.arg EXCEPT !.limit = 1]

\* The items a rebuild that installed the offset table and the buffer would
\* have collected: for every entry its key and the part of the buffer
\* between its start and its end.
InstalledItems ==
    [k \in 1..Len(searchPositions) |->
        [key     |-> searchPositions[k].key,
         content |-> Slice(searchContent, searchPositions[k].start,
                           searchPositions[k].end)]]

\* C30: the installed search index.  In every state the suffix array is
\* nil with an empty buffer or is an array of the installed buffer; every
\* entry of the offset table lies inside the buffer; and array, buffer and
\* offset table are what one rebuild builds from one list of items.
C30_IndexConsistent ==
    /\ IF searchIndex = NilIndex THEN searchContent = <<>>
       ELSE searchIndex.Text = searchContent
    /\ \A k \in 1..Len(searchPositions) :
           /\ 0 <= searchPositions[k].start
           /\ searchPositions[k].start <= searchPositions[k].end
           /\ searchPositions[k].end < Len(searchContent)
    /\ BuiltIndex(InstalledItems) =
           [searchContent   |-> searchContent,
            searchIndex     |-> searchIndex,
            searchPositions |-> searchPositions]

\* An index with an entry is installed while a thread is about to install
\* another one, built from what it collected before a store or delete.
C30_Witness ==
    /\ Len(searchPositions) > 0
    /\ \E t \in Threads :
           /\ pc[t] = "install"
           /\ BuiltIndex(local[t].items).searchContent # searchContent
           /\ local[t].items \notin CollectItems(local[t].session)

\* C31: a thread that is inside a call of the content database (StoreResult,
\* UpdateResultAccess, DeleteResult, DeleteSessionResults, LoadAllResults or
\* Close) holds neither the read nor the write lock of the store.
C31_NoLockInBackingCall ==
    \A t \in Threads : pc[t] \in {"db", "load"} => Holds(t) = "none"

\* C31 witness: a thread is inside StoreResult while the other thread holds
\* the write lock.
C31_Witness ==
    \E t, u \in Threads :
        /\ pc[t] = "db"
        /\ local[t].op = "store"
        /\ Holds(u) = "W"

\* C32: a call of store, get, delete, delete_session or open whose call of
\* the content database returned an error returns an error, and writes
\* nothing to os.Stderr.
C32_ErrorsSurfaced ==
    "dbErr" \in DOMAIN last =>
        /\ "err" \in DOMAIN last.ret
        /\ "stderr" \notin DOMAIN last

\* The ellipsis marker.
Ellipsis == <<".", ".", ".">>

\* The summary s without a marker that ends it: s itself, or s less its
\* last three characters when these are the marker.
Unmarked(s) ==
    IF Len(s) >= 3 /\ Slice(s, Len(s) - 3, Len(s)) = Ellipsis
    THEN {s, Slice(s, 0, Len(s) - 3)}
    ELSE {s}

\* The lines of a summary, as the test counts them.
SummaryLines(s) == Cardinality({i \in 1..Len(s) : s[i] = NL}) + 1

\* C33: with character cap c and line cap l (200 and 5 when not positive),
\* the summary of a content has at most l lines; without an optional
\* trailing marker "..." it is a prefix of the content of at most c
\* characters; and the marker is there when the character cap cut a line,
\* that is when the summary without marker has c characters and the content
\* goes on in the same line.
C33_SummaryCaps ==
    last.op = "summary" =>
        LET content == last.arg.content
            c == IF last.arg.opts.SummaryLength > 0
                 THEN last.arg.opts.SummaryLength ELSE 200
            l == IF last.arg.opts.SummaryLines > 0
                 THEN last.arg.opts.SummaryLines ELSE 5
            s == last.ret.summary
        IN  /\ SummaryLines(s) <= l
            /\ \E body \in Unmarked(s) :
                   /\ Len(body) <= c
                   /\ HasPrefix(content, body)
                   /\ (/\ Len(body) = c
                       /\ Len(content) > c
                       /\ content[c + 1] # NL
                       /\ SummaryLines(Slice(content, 0, c + 1)) <= l)
                           => body # s

\* C34: Search(pattern) on BuildSuffixArray(text) returns the offsets i with
\* text[i : i+len(pattern)] = pattern, all of them, each once and in
\* ascending order, and nothing for the empty pattern or the empty text;
\* the array lists every offset of the text once.
C34_SearchExact ==
    last.op = "sa_search" =>
        LET text    == last.arg.text
            pattern == last.arg.pattern
            offsets == last.ret.offsets
        IN  /\ {last.ret.SA[i] : i \in 1..Len(last.ret.SA)} = 0..(Len(text) - 1)
            /\ Len(last.ret.SA) = Len(text)
            /\ \A i \in 1..(Len(offsets) - 1) : offsets[i] < offsets[i + 1]
            /\ {offsets[i] : i \in 1..Len(offsets)} =
                   IF Len(pattern) = 0 \/ Len(text) = 0 THEN {}
                   ELSE {i \in 0..(Len(text) - Len(pattern)) :
                            Slice(text, i, i + Len(pattern)) = pattern}

\* C34 witness: a search that finds the pattern twice in a text of which a
\* shorter suffix is a proper prefix of the pattern.
C34_Witness ==
    /\ last.op = "sa_search"
    /\ Len(last.ret.offsets) = 2
    /\ \E n \in 1..(Len(last.arg.pattern) - 1) :
           Slice(last.arg.text, Len(last.arg.text) - n, Len(last.arg.text)) =
               Slice(last.arg.pattern, 0, n)

\* C35: a list call that follows a list call of the same session, with no
\* other call between them, returns the same entries in the same order
\* when offset and limit are the same, and when the two are the pages of
\* one entry at offsets 0 and 1 the second page does not repeat the first.
C35_ListDeterministic ==
    [][(/\ last.op = "list"
        /\ last'.op = "list"
        /\ nops' = nops + 1
        /\ last'.arg.session = last.arg.session)
       => /\ last'.arg.opts = last.arg.opts => last'.ret = last.ret
          /\ (/\ last.arg.opts = [Limit |-> 1, Offset |-> 0]
              /\ last'.arg.opts = [Limit |-> 1, Offset |-> 1]
              /\ Len(last.ret) = 1
              /\ Len(last'.ret) = 1)
                 => last'.ret[1] # last.ret[1]]_vars

\* C36: once the concurrent stores and deletes of one key have all
\* returned, the table has a row for the key exactly when get finds the
\* key, and the row then has the content get returns.
C36_MemoryDiskAgree ==
    (\A t \in Threads : pc[t] = "idle") =>
        LET pk == [SessionID |-> SameKey.SessionID, Key |-> SameKey.Key]
        IN  /\ pk \in DOMAIN results <=> Lookup(SameKey).found
            /\ Lookup(SameKey).found =>
                   results[pk].Content = Lookup(SameKey).Content

\* Thread t is a Get in its second critical section, and its key is still
\* bound to the Result it copied under the read lock.
GetCounts(t) ==
    /\ pc[t] = "locked"
    /\ local[t].op = "get"
    /\ composeResultKey(local[t].key) \in DOMAIN keyToHash
    /\ keyToHash[composeResultKey(local[t].key)] = local[t].hash
    /\ local[t].hash \in DOMAIN contentIndex

\* C37: no increment of the in-memory access count is lost.  Every get of
\* a key that stays bound to its Result raises the access count of the
\* Result by exactly one, whatever the other thread did since the get
\* looked the key up, and returns the raised count, which is higher than
\* the count the get of the key that returned before it returned; no other
\* step of a get changes a count.  So N gets raise the count by N and
\* return N different counts.
C37_NoLostIncrement ==
    [][\A t \in Threads :
          /\ (GetCounts(t) /\ pc'[t] = "idle") =>
                 \A key \in {local[t].key} :
                     /\ Lookup(key)'.Metadata.AccessCount =
                            Lookup(key).Metadata.AccessCount + 1
                     /\ last'.ret.Metadata.AccessCount =
                            Lookup(key)'.Metadata.AccessCount
                     /\ (last.op = "get" /\ last.arg.key = key /\ last.ret.found)
                            => last'.ret.Metadata.AccessCount >
                                   last.ret.Metadata.AccessCount
          /\ (pc[t] \in {"rlocked", "between"} /\ pc'[t] # pc[t])
                 => contentIndex' = contentIndex]_vars

\* C37 witness: a get of a key has returned while another get of the key
\* was between its two critical sections, holding a count that is no
\* longer the Result's.
C37_Witness ==
    \E t \in Threads :
        /\ pc[t] = "between"
        /\ last.op = "get"
        /\ last.arg.key = local[t].key
        /\ last.ret.found
        /\ Lookup(local[t].key).found
        /\ local[t].metadata.AccessCount <
               Lookup(local[t].key).Metadata.AccessCount

\* C38: before close the hashes that hold a Result in the content map are
\* the hashes the composite keys are bound to: no key is bound to a hash
\* without a Result, and no Result stays under a hash no key is bound to.
C38_IndexConsistency ==
    ~closed =>
        DOMAIN contentIndex = {keyToHash[ck] : ck \in DOMAIN keyToHash}

\* C39: different ResultKeys never alias, also when they hold ':'.  A get
\* of a key returns only what was stored under that key; a store or a
\* delete of a key leaves what get finds for every other key as it was;
\* and get_by_prefix(s, P) returns only entries whose session is s.
C39_NoAlias ==
    [][nops' = nops + 1 =>
       /\ (last'.op = "get" /\ last'.ret.found) =>
              /\ expected[last'.arg.key].present
              /\ last'.ret.Content = expected[last'.arg.key].content
       /\ last'.op \in {"store", "delete"} =>
              \A k \in AliasKeys \ {last'.arg.key} :
                  /\ Lookup(k)'.found = Lookup(k).found
                  /\ Lookup(k).found => Lookup(k)'.Content = Lookup(k).Content
       /\ last'.op = "get_by_prefix" =>
              \A i \in 1..Len(last'.ret) :
                  last'.ret[i].Key.SessionID = last'.arg.session]_vars

====
